---- MODULE Spec2Model ----
(***************************************************************************)
(* A model of mondis' cache-consistency engine: the cached-execution       *)
(* protocol of CachedQuery (exec / count against a redis store and a       *)
(* mongo collection, execWithCount on top of them), the InvalidationHandler *)
(* that consumes insert and remove effects, the documentWatcherPlugin that *)
(* turns the writes of the application into those effects, and            *)
(* applyUpdates, which applies update operators to documents in memory.    *)
(*                                                                         *)
(* Every await of the TypeScript code is a point where other tasks may     *)
(* run, so every handler is cut into one action per awaited store or       *)
(* database round trip; a redis MULTI batch is one atomic action.          *)
(***************************************************************************)
EXTENDS Integers, Sequences, FiniteSets, TLC

VARIABLES
  db,               \* ids of the documents present in the User collection
  hashes,           \* redis hashes: cache key -> fields V, O, P, count
  sets,             \* redis sets:   O:<id>, P:<id>, A:<hash> -> cache keys
  calls,            \* in-flight exec / count calls, one record per slot
  effects,          \* in-flight cache effects inside the InvalidationHandler
  keysInvalidated,  \* InvalidationHandler.keysInvalidated
  nCalls,           \* calls started so far
  nEffects,         \* database writes (effects emitted) so far
  ttl,              \* redis expiry: key -> seconds left, 0 for a key without expiry
  codec,            \* a getCacheKey / parseCacheKey computation under way
  watcher,          \* documentWatcherPlugin: writes under way, events invoked
  updates           \* an applyUpdates call: its targets, its update, its outcome

vars == <<db, hashes, sets, calls, effects, keysInvalidated, nCalls, nEffects,
          ttl, codec, watcher, updates>>

----------------------------------------------------------------------------
(* Bounds of the model. *)

MaxDocs == 3        \* document ids are 1..MaxDocs
MaxSlots == 1       \* exec / count calls in flight at once
MaxCalls == 2       \* exec / count calls started in one behaviour of Spec
MaxWideCalls == 2   \* exec / count calls started in one behaviour of SpecCalls
MaxEffects == 1     \* database writes in one behaviour
MaxSkip == 3        \* skip ranges over 0..MaxSkip
MaxLimit == 2       \* limit ranges over undefined, 0..MaxLimit

----------------------------------------------------------------------------
(* Values.  An optional value (undefined / null in the code) is the empty  *)
(* sequence, a present one a one-element sequence.                         *)

Infinity == 1000

None == <<>>
Some(v) == <<v>>
IsSome(o) == o # <<>>
Min(a, b) == IF a < b THEN a ELSE b

DocIds == 1..MaxDocs

\* The documents of the User collection.  A document never changes shape in
\* the model: an update is a remove followed by an insert of the same id.
Doc(i) ==
  [_id     |-> i,
   orgId   |-> IF i % 2 = 1 THEN "A" ELSE "B",
   age     |-> IF i = 1 THEN 30 ELSE IF i = 2 THEN 50 ELSE 17,
   manager |-> IF i = 1 THEN 0 ELSE 1]

----------------------------------------------------------------------------
(* Registered query definitions (CachedQueryConfig).  A filter is a list   *)
(* of clauses; a clause compares a document field with a call parameter    *)
(* (param > 0, its position) or with a static value (param = 0).           *)

Queries == {"byOrg", "olderThan", "byId", "adults", "inOrg", "hotById"}

Config(q) ==
  CASE q = "byOrg" ->
         [model |-> "User", unique |-> FALSE, invalidateOnInsert |-> TRUE,
          cacheCount |-> 2, populate |-> <<>>, paramTypes |-> <<"string">>,
          expiry |-> 2, rehydrate |-> FALSE,
          query |-> <<[field |-> "orgId", op |-> "eq", param |-> 1, value |-> 0]>>]
    [] q = "olderThan" ->
         [model |-> "User", unique |-> FALSE, invalidateOnInsert |-> TRUE,
          cacheCount |-> Infinity, populate |-> <<"manager">>, paramTypes |-> <<"number">>,
          expiry |-> 1, rehydrate |-> FALSE,
          query |-> <<[field |-> "age", op |-> "gt", param |-> 1, value |-> 0],
                      [field |-> "manager", op |-> "eq", param |-> 0, value |-> 1]>>]
    [] q = "byId" ->
         [model |-> "User", unique |-> TRUE, invalidateOnInsert |-> TRUE,
          cacheCount |-> Infinity, populate |-> <<>>, paramTypes |-> <<"number">>,
          expiry |-> 1, rehydrate |-> FALSE,
          query |-> <<[field |-> "_id", op |-> "eq", param |-> 1, value |-> 0]>>]
    [] q = "adults" ->
         [model |-> "User", unique |-> FALSE, invalidateOnInsert |-> FALSE,
          cacheCount |-> Infinity, populate |-> <<>>, paramTypes |-> <<>>,
          expiry |-> 2, rehydrate |-> FALSE,
          query |-> <<[field |-> "age", op |-> "gt", param |-> 0, value |-> 18]>>]
    [] q = "inOrg" ->
         [model |-> "User", unique |-> FALSE, invalidateOnInsert |-> TRUE,
          cacheCount |-> Infinity, populate |-> <<>>, paramTypes |-> <<"string">>,
          expiry |-> 2, rehydrate |-> TRUE,
          query |-> <<[field |-> "orgId", op |-> "eq", param |-> 1, value |-> 0]>>]
    [] q = "hotById" ->
         [model |-> "User", unique |-> TRUE, invalidateOnInsert |-> TRUE,
          cacheCount |-> Infinity, populate |-> <<>>, paramTypes |-> <<"number">>,
          expiry |-> 2, rehydrate |-> TRUE,
          query |-> <<[field |-> "_id", op |-> "eq", param |-> 1, value |-> 0]>>]

\* The definitions that are not rehydrated after an invalidation.
ColdQueries == {q \in Queries : ~Config(q).rehydrate}

\* The parameter tuples the callers pass.
Params(q) ==
  CASE q = "byOrg"     -> {<<"A">>, <<"B">>}
    [] q = "olderThan" -> {<<10>>, <<40>>}
    [] q = "byId"      -> {<<i>> : i \in 1..2}
    [] q = "adults"    -> {<<>>}
    [] q = "inOrg"     -> {<<"A">>, <<"B">>}
    [] q = "hotById"   -> {<<i>> : i \in 1..2}

\* get hash(): jsonHash of the config with the parameters replaced by
\* $CQPi$ tokens; one distinct hash per definition shape.
Hash(q) ==
  CASE q = "byOrg"     -> "7a1c"
    [] q = "olderThan" -> "3e9f"
    [] q = "byId"      -> "c04b"
    [] q = "adults"    -> "d215"
    [] q = "inOrg"     -> "b7e2"
    [] q = "hotById"   -> "91aa"

----------------------------------------------------------------------------
(* Cache keys. *)

Digit(d) ==
  CASE d = 0 -> "0" [] d = 1 -> "1" [] d = 2 -> "2" [] d = 3 -> "3" [] d = 4 -> "4"
    [] d = 5 -> "5" [] d = 6 -> "6" [] d = 7 -> "7" [] d = 8 -> "8" [] d = 9 -> "9"

RECURSIVE NumStr(_)
NumStr(n) == IF n < 10 THEN Digit(n) ELSE NumStr(n \div 10) \o Digit(n % 10)

\* EJSON.stringify of one parameter value.
EJSONValue(type, v) == IF type = "string" THEN "\"" \o v \o "\"" ELSE NumStr(v)

RECURSIVE EJSONItems(_, _)
EJSONItems(types, params) ==
  IF params = <<>> THEN ""
  ELSE IF Len(params) = 1 THEN EJSONValue(types[1], params[1])
  ELSE EJSONValue(types[1], params[1]) \o "," \o EJSONItems(Tail(types), Tail(params))

EJSONStringify(types, params) == "[" \o EJSONItems(types, params) \o "]"

\* CachedQuery.getCacheKey: `Q:${hash}${paramsStr}`.
getCacheKey(q, params) ==
  "Q:" \o Hash(q) \o EJSONStringify(Config(q).paramTypes, params)

allKey(q) == "A:" \o Hash(q)
objKey(id) == "O:" \o NumStr(id)
popKey(id) == "P:" \o NumStr(id)

AllKeys == UNION {{getCacheKey(q, p) : p \in Params(q)} : q \in Queries}
\* A key left in the store by an earlier version, cut short: no getCacheKey
\* of the registered definitions makes it.
StrayKey == "Q:7a1c[7"

\* The keys of the hashes of the store.
StoreKeys == AllKeys \cup {StrayKey}

SetKeys == {allKey(q) : q \in Queries} \cup {objKey(i) : i \in DocIds}
             \cup {popKey(i) : i \in DocIds}

\* The definition a cache key belongs to.
QueryOfKey(k) == CHOOSE q \in Queries : \E p \in Params(q) : getCacheKey(q, p) = k

----------------------------------------------------------------------------
(* The cache-key codec, character by character.  A string is a sequence of *)
(* one-character strings here, so that parseCacheKey can take apart what    *)
(* getCacheKey has put together.                                            *)

MaxTupleLen == 2    \* parameter tuples handed to the codec hold 0..MaxTupleLen values

RECURSIVE Join(_)
Join(cs) == IF cs = <<>> THEN "" ELSE Head(cs) \o Join(Tail(cs))

\* A parameter value: a string (its characters), a number, a Date (the
\* instant v), an ObjectId (its hex characters); JSON.parse also yields plain
\* objects of one key k.
\* (t: the type; s: characters; n: a number; k, it: the key of an object and
\* the type of the value under it.)
StringVal(cs) == [t |-> "string", s |-> cs, n |-> 0, k |-> <<>>, it |-> ""]
NumberVal(n) == [t |-> "number", s |-> <<>>, n |-> n, k |-> <<>>, it |-> ""]
DateVal(d) == [t |-> "date", s |-> <<>>, n |-> d, k |-> <<>>, it |-> ""]
OidVal(cs) == [t |-> "oid", s |-> cs, n |-> 0, k |-> <<>>, it |-> ""]
ObjectVal(k, val) == [t |-> "object", s |-> val.s, n |-> val.n, k |-> k, it |-> val.t]

HashChars(q) ==
  CASE q = "byOrg"     -> <<"7", "a", "1", "c">>
    [] q = "olderThan" -> <<"3", "e", "9", "f">>
    [] q = "byId"      -> <<"c", "0", "4", "b">>
    [] q = "adults"    -> <<"d", "2", "1", "5">>
    [] q = "inOrg"     -> <<"b", "7", "e", "2">>
    [] q = "hotById"   -> <<"9", "1", "a", "a">>

RECURSIVE NumChars(_)
NumChars(n) == IF n < 10 THEN <<Digit(n)>> ELSE NumChars(n \div 10) \o <<Digit(n % 10)>>

\* JSON.stringify of a string: quotes around it, " and \ escaped.
RECURSIVE EscapeChars(_)
EscapeChars(cs) ==
  IF cs = <<>> THEN <<>>
  ELSE (IF Head(cs) \in {"\"", "\\"} THEN <<"\\", Head(cs)>> ELSE <<Head(cs)>>)
         \o EscapeChars(Tail(cs))

JSONStringChars(cs) == <<"\"">> \o EscapeChars(cs) \o <<"\"">>

\* The ISO date string of the instant d.
IsoChars(d) == <<"T">> \o NumChars(d)

\* bson's EJSON.stringify of one value (relaxed mode): strings and numbers as
\* JSON, a Date as {"$date":"<iso>"}, an ObjectId as {"$oid":"<hex>"}.
EJSONValueChars(val) ==
  CASE val.t = "string" -> JSONStringChars(val.s)
    [] val.t = "number" -> NumChars(val.n)
    [] val.t = "date"   -> <<"{">> \o JSONStringChars(<<"$", "d", "a", "t", "e">>) \o <<":">>
                             \o JSONStringChars(IsoChars(val.n)) \o <<"}">>
    [] val.t = "oid"    -> <<"{">> \o JSONStringChars(<<"$", "o", "i", "d">>) \o <<":">>
                             \o JSONStringChars(val.s) \o <<"}">>

RECURSIVE EJSONItemsChars(_)
EJSONItemsChars(params) ==
  IF params = <<>> THEN <<>>
  ELSE IF Len(params) = 1 THEN EJSONValueChars(params[1])
  ELSE EJSONValueChars(params[1]) \o <<",">> \o EJSONItemsChars(Tail(params))

EJSONStringifyChars(params) == <<"[">> \o EJSONItemsChars(params) \o <<"]">>

Thrown == [ok |-> FALSE]

\* CachedQuery.getCacheKey on the characters: throws on a wrong number of
\* params, else `Q:${hash}${paramsStr}`.
getCacheKeyChars(q, params) ==
  IF Len(Config(q).paramTypes) # Len(params) THEN Thrown
  ELSE [ok |-> TRUE,
        key |-> <<"Q", ":">> \o HashChars(q) \o EJSONStringifyChars(params)]

Digits == {"0", "1", "2", "3", "4", "5", "6", "7", "8", "9"}
DigitValue(c) == CHOOSE d \in 0..9 : Digit(d) = c

NoParse == [ok |-> FALSE, val |-> <<>>, next |-> 0]

\* JSON.parse of a string literal that opens at position i - 1.
RECURSIVE ScanString(_, _, _)
ScanString(cs, j, acc) ==
  IF j > Len(cs) THEN NoParse
  ELSE IF cs[j] = "\"" THEN [ok |-> TRUE, val |-> acc, next |-> j + 1]
  ELSE IF cs[j] = "\\"
       THEN IF j + 1 > Len(cs) THEN NoParse
            ELSE ScanString(cs, j + 2, Append(acc, cs[j + 1]))
  ELSE ScanString(cs, j + 1, Append(acc, cs[j]))

\* JSON.parse of a number that starts at position j.
RECURSIVE ScanNumber(_, _, _)
ScanNumber(cs, j, acc) ==
  IF j <= Len(cs) /\ cs[j] \in Digits
  THEN ScanNumber(cs, j + 1, 10 * acc + DigitValue(cs[j]))
  ELSE [ok |-> TRUE, val |-> acc, next |-> j]

\* JSON.parse of one value at position i: a string, a number, or an object
\* of one key over a string or a number.
RECURSIVE ParseValue(_, _)
ParseValue(cs, i) ==
  IF i > Len(cs) THEN NoParse
  ELSE IF cs[i] = "\"" THEN
    LET r == ScanString(cs, i + 1, <<>>)
    IN  IF r.ok THEN [r EXCEPT !.val = StringVal(r.val)] ELSE NoParse
  ELSE IF cs[i] \in Digits THEN
    LET r == ScanNumber(cs, i, 0) IN [r EXCEPT !.val = NumberVal(r.val)]
  ELSE IF cs[i] = "{" /\ i + 1 <= Len(cs) /\ cs[i + 1] = "\"" THEN
    LET k == ScanString(cs, i + 2, <<>>)
    IN  IF ~k.ok \/ k.next > Len(cs) \/ cs[k.next] # ":" THEN NoParse
        ELSE LET v == ParseValue(cs, k.next + 1)
             IN  IF ~v.ok \/ v.val.t = "object" \/ v.next > Len(cs) \/ cs[v.next] # "}"
                 THEN NoParse
                 ELSE [ok |-> TRUE, val |-> ObjectVal(k.val, v.val), next |-> v.next + 1]
  ELSE NoParse

\* JSON.parse of the items of an array from position i on, up to its "]".
RECURSIVE ParseItems(_, _, _)
ParseItems(cs, i, acc) ==
  LET v == ParseValue(cs, i)
  IN  IF ~v.ok \/ v.next > Len(cs) THEN NoParse
      ELSE IF cs[v.next] = "," THEN ParseItems(cs, v.next + 1, Append(acc, v.val))
      ELSE IF cs[v.next] = "]" /\ v.next = Len(cs)
           THEN [ok |-> TRUE, val |-> Append(acc, v.val), next |-> v.next + 1]
      ELSE NoParse

\* JSON.parse(params) of an array text.
JSONParseArray(cs) ==
  IF Len(cs) < 2 \/ cs[1] # "[" THEN NoParse
  ELSE IF Len(cs) = 2 THEN (IF cs[2] = "]" THEN [ok |-> TRUE, val |-> <<>>, next |-> 3]
                            ELSE NoParse)
  ELSE ParseItems(cs, 2, <<>>)

\* The lengths of hash the pattern /^Q:(.+?)(\[.*\])$/ can match with.
HashLengths(cs) ==
  {n \in 1..Len(cs) :
     /\ Len(cs) >= n + 4 /\ cs[1] = "Q" /\ cs[2] = ":"
     /\ cs[n + 3] = "[" /\ cs[Len(cs)] = "]"}

\* parseCacheKey(key): the lazy (.+?) takes the shortest hash; throws when
\* the pattern does not match or JSON.parse fails.
parseCacheKey(cs) ==
  IF HashLengths(cs) = {} THEN Thrown
  ELSE LET n == CHOOSE m \in HashLengths(cs) : \A o \in HashLengths(cs) : m <= o
           params == JSONParseArray(SubSeq(cs, n + 3, Len(cs)))
       IN  IF ~params.ok THEN Thrown
           ELSE [ok |-> TRUE, hash |-> SubSeq(cs, 3, n + 2), params |-> params.val]

----------------------------------------------------------------------------
(* The source of truth: mongoose find / countDocuments on the collection.  *)

Operand(c, params) == IF c.param > 0 THEN params[c.param] ELSE c.value

ClauseHolds(c, doc, params) ==
  IF c.op = "eq" THEN doc[c.field] = Operand(c, params)
                 ELSE doc[c.field] > Operand(c, params)

\* The filter built by parseOpts, query(...params), applied to a document.
Matches(doc, q, params) ==
  \A n \in 1..Len(Config(q).query) : ClauseHolds(Config(q).query[n], doc, params)

RECURSIVE SortedSeq(_)
SortedSeq(S) ==
  IF S = {} THEN <<>>
  ELSE LET m == CHOOSE x \in S : \A y \in S : x <= y
       IN  <<m>> \o SortedSeq(S \ {m})

Drop(s, n) == SubSeq(s, n + 1, Len(s))
Take(s, n) == SubSeq(s, 1, Min(n, Len(s)))

\* A fetched document as the result holds it: its id and, when the
\* definition populates `manager` and the referenced document exists, the id
\* of the populated sub-document (0 otherwise).
Row(d, q, i) ==
  [_id |-> i,
   manager |-> IF Len(Config(q).populate) > 0 /\ Doc(i).manager \in d
               THEN Doc(i).manager ELSE 0]

\* CachedQuery.buildQuery + execMongo: find(query), limit(1) when unique,
\* else skip / limit when given (a falsy or infinite limit is no limit).
execMongo(d, q, params, skip, limit) ==
  LET found == SortedSeq({i \in d : Matches(Doc(i), q, params)})
      cut   == IF Config(q).unique THEN Take(found, 1)
               ELSE LET skipped == IF skip # 0 THEN Drop(found, skip) ELSE found
                    IN  IF IsSome(limit) /\ limit[1] # 0 /\ limit[1] # Infinity
                        THEN Take(skipped, limit[1]) ELSE skipped
  IN  [n \in 1..Len(cut) |-> Row(d, q, cut[n])]

\* CachedQuery.countMongo: the same query with skip 0 and no limit, counted.
countMongo(d, q, params) ==
  LET n == Cardinality({i \in d : Matches(Doc(i), q, params)})
  IN  IF Config(q).unique THEN Min(n, 1) ELSE n

\* utils.collectPopulatedIds: the ids of the populated sub-documents.
collectPopulatedIds(result) ==
  SortedSeq({result[n].manager : n \in {m \in 1..Len(result) : result[m].manager # 0}})

docIdsOf(result) == [n \in 1..Len(result) |-> result[n]._id]

\* utils.skipAndLimit: the window [skip, skip + limit) of a result.
skipAndLimit(result, skip, limit) ==
  IF IsSome(limit) /\ limit[1] # Infinity
  THEN Take(Drop(result, skip), limit[1])
  ELSE Drop(result, skip)

\* The client-side filter functions the callers pass (`none`: no filter).
Filters == {"none", "orgA"}
PassesFilter(f, row) == f = "none" \/ Doc(row._id).orgId = "A"
applyFilter(f, result) ==
  LET Keep(row) == PassesFilter(f, row) IN SelectSeq(result, Keep)

----------------------------------------------------------------------------
(* The redis store. *)

NoFields == [V |-> None, O |-> None, P |-> None, count |-> None]

\* A redis hash exists as long as it holds a field.
KeyExists(h, k) == h[k] # NoFields

\* The MULTI batch of serializeAndCache on the hashes: del, then hset V, O, P.
cacheHashes(h, result, cacheKey) ==
  [h EXCEPT ![cacheKey] =
     [V |-> Some(result), O |-> Some(docIdsOf(result)),
      P |-> Some(collectPopulatedIds(result)), count |-> None]]

\* A slip in serializeAndCache: the P:<id> sets are not added to.
cacheSetsPrimaryOnly(st, q, result, cacheKey) ==
  LET docIds == {result[n]._id : n \in 1..Len(result)}
      touched == {allKey(q)} \cup {objKey(i) : i \in docIds}
  IN  [sk \in SetKeys |-> IF sk \in touched THEN st[sk] \cup {cacheKey} ELSE st[sk]]

\* The MULTI batch of serializeAndCache on the sets: sadd to A:<hash>, to
\* O:<id> of every document and to P:<id> of every populated document.
cacheSets(st, q, result, cacheKey) ==
  LET docIds == {result[n]._id : n \in 1..Len(result)}
      popIds == {result[n].manager : n \in 1..Len(result)} \ {0}
      touched == {allKey(q)} \cup {objKey(i) : i \in docIds}
                   \cup {popKey(i) : i \in popIds}
  IN  [sk \in SetKeys |-> IF sk \in touched THEN st[sk] \cup {cacheKey} ELSE st[sk]]

\* The redis command expiregt on a key with `cur` seconds left (0: no expiry):
\* the expiry is set when it is greater than what the key has left.
expiregt(cur, expiry) == IF expiry > cur THEN expiry ELSE cur

\* The MULTI batch of serializeAndCache on the expiries: the cache key is
\* deleted and written anew, then expiregt on it and on every set added to.
cacheTtl(t, q, result, cacheKey) ==
  LET expiry == Config(q).expiry
      docIds == {result[n]._id : n \in 1..Len(result)}
      popIds == {result[n].manager : n \in 1..Len(result)} \ {0}
      touched == {allKey(q)} \cup {objKey(i) : i \in docIds}
                   \cup {popKey(i) : i \in popIds}
  IN  [k \in DOMAIN t |->
         IF k = cacheKey THEN expiregt(0, expiry)
         ELSE IF k \in touched THEN expiregt(t[k], expiry)
         ELSE t[k]]

----------------------------------------------------------------------------
(* CachedQuery.exec and CachedQuery.count, one action per await.           *)

Slots == 1..MaxSlots

IdleCall ==
  [pc |-> "idle", op |-> "exec", q |-> "byOrg", params |-> <<>>, key |-> "",
   input |-> <<>>, skip |-> 0, limit |-> None, filter |-> "none", skipCache |-> FALSE,
   cand |-> <<>>, ret |-> <<>>, cnt |-> None,
   didRead |-> FALSE, didFetch |-> FALSE, didWrite |-> FALSE,
   readFailed |-> FALSE, writeFailed |-> FALSE,
   window |-> [skip |-> 0, limit |-> None]]

Plus(a, b) == IF a = Infinity \/ b = Infinity THEN Infinity ELSE a + b

\* exec's test "query is outside cacheable skip/limit" (a limit of 0 is falsy).
bypassesCache(q, skip, limit) ==
  \/ Config(q).cacheCount < Infinity /\ limit = None
  \/ IsSome(limit) /\ limit[1] # 0 /\ Plus(limit[1], skip) > Config(q).cacheCount

\* A slip in the tail of exec: the window is cut before the filter is applied.
finishWindowFirst(c, result) ==
  applyFilter(c.filter, skipAndLimit(result, c.skip, c.limit))

\* The tail of exec: the client-side filter, then the window.
finish(c, result) == skipAndLimit(applyFilter(c.filter, result), c.skip, c.limit)

\* A slip in exec's test before serializeAndCache: unique is not looked at.
shouldCacheAlways(q, result) == TRUE

\* exec's test before serializeAndCache: result.length > 0 || !unique.
shouldCache(q, result) == Len(result) > 0 \/ ~Config(q).unique

Limits == {None} \cup {Some(n) : n \in 0..MaxLimit}

\* parseOpts(input): a function query is applied to the params of the input
\* and getCacheKey(params) throws on a wrong number of them; for a static
\* query the key is getCacheKey([]), whatever the input holds.
parseOpts(q, params) ==
  IF Len(Config(q).paramTypes) = 0
  THEN [ok |-> TRUE, params |-> <<>>, key |-> getCacheKey(q, <<>>)]
  ELSE IF Len(params) # Len(Config(q).paramTypes)
  THEN [ok |-> FALSE, params |-> <<>>, key |-> ""]
  ELSE [ok |-> TRUE, params |-> params, key |-> getCacheKey(q, params)]

\* exec(input) up to its first await: parseOpts, then the bypass test.
ExecStart(s, q, params, skip, limit, filter, skipCache) ==
  LET opts == parseOpts(q, params) IN
  /\ calls[s].pc \in {"idle", "done", "failed"}
  /\ nCalls' = nCalls + 1
  /\ calls' = [calls EXCEPT ![s] =
       [IdleCall EXCEPT
          !.pc = IF ~opts.ok THEN "failed"
                 ELSE IF bypassesCache(q, skip, limit) THEN "mongo"
                 ELSE IF ~skipCache THEN "hget" ELSE "find",
          !.op = "exec", !.q = q, !.input = params,
          !.params = opts.params, !.key = opts.key,
          !.skip = skip, !.limit = limit, !.filter = filter, !.skipCache = skipCache]]
  /\ UNCHANGED <<db, hashes, sets, effects, keysInvalidated, nEffects, ttl, codec, watcher, updates>>

\* return this.execMongo(opts): the caller's window, no cache, no filter.
ExecMongoDirect(s) ==
  LET c == calls[s] IN
  /\ c.pc = "mongo"
  /\ calls' = [calls EXCEPT ![s].pc = "done", ![s].didFetch = TRUE,
                 ![s].ret = execMongo(db, c.q, c.params, c.skip, c.limit)]
  /\ UNCHANGED <<db, hashes, sets, effects, keysInvalidated, nCalls, nEffects, ttl, codec, watcher, updates>>

\* await redis.hgetBuffer(cacheKey, 'V')
ExecHget(s) ==
  LET c == calls[s]
      bson == hashes[c.key].V
  IN
  /\ c.pc = "hget"
  /\ calls' = [calls EXCEPT ![s] =
       IF IsSome(bson)
       THEN [c EXCEPT !.pc = "done", !.didRead = TRUE, !.cand = bson[1],
                      !.ret = finish(c, bson[1])]
       ELSE [c EXCEPT !.pc = "find", !.didRead = TRUE]]
  /\ UNCHANGED <<db, hashes, sets, effects, keysInvalidated, nCalls, nEffects, ttl, codec, watcher, updates>>

\* A slip in exec: the miss fetches with the options of the request instead
\* of fresh ones, the skip and the limit of the caller.
ExecFindOfRequest(s) ==
  LET c == calls[s]
      result == execMongo(db, c.q, c.params, c.skip, c.limit)
  IN
  /\ c.pc = "find"
  /\ calls' = [calls EXCEPT ![s] =
       [c EXCEPT !.pc = IF shouldCache(c.q, result) THEN "cache" ELSE "done",
                 !.didFetch = TRUE, !.cand = result, !.ret = finish(c, result)]]
  /\ UNCHANGED <<db, hashes, sets, effects, keysInvalidated, nCalls, nEffects, ttl, codec, watcher, updates>>

\* await this.execMongo(opts.fresh({ limit: cacheCount })); the result is
\* returned to the caller here, serializeAndCache is not awaited.
ExecFind(s) ==
  LET c == calls[s]
      result == execMongo(db, c.q, c.params, 0, Some(Config(c.q).cacheCount))
  IN
  /\ c.pc = "find"
  /\ calls' = [calls EXCEPT ![s] =
       [c EXCEPT !.pc = IF shouldCache(c.q, result) THEN "cache" ELSE "done",
                 !.didFetch = TRUE, !.cand = result, !.ret = finish(c, result)]]
  /\ UNCHANGED <<db, hashes, sets, effects, keysInvalidated, nCalls, nEffects, ttl, codec, watcher, updates>>

\* serializeAndCache: await multi.exec()
ExecCache(s) ==
  LET c == calls[s] IN
  /\ c.pc = "cache"
  /\ hashes' = cacheHashes(hashes, c.cand, c.key)
  /\ sets' = cacheSets(sets, c.q, c.cand, c.key)
  /\ ttl' = cacheTtl(ttl, c.q, c.cand, c.key)
  /\ calls' = [calls EXCEPT ![s].pc = "done", ![s].didWrite = TRUE]
  /\ UNCHANGED <<db, effects, keysInvalidated, nCalls, nEffects, codec, watcher, updates>>

\* A slip in count: the client-side filter is not looked at.
CountStartIgnoringFilter(s, q, params, filter, skipCache) ==
  /\ calls[s].pc \in {"idle", "done"}
  /\ nCalls' = nCalls + 1
  /\ calls' = [calls EXCEPT ![s] =
       [IdleCall EXCEPT
          !.pc = IF ~skipCache THEN "hgetCount" ELSE "countMongo",
          !.op = "count", !.q = q, !.params = params, !.key = getCacheKey(q, params),
          !.filter = filter, !.skipCache = skipCache]]
  /\ UNCHANGED <<db, hashes, sets, effects, keysInvalidated, nEffects, ttl, codec, watcher, updates>>

\* count(input) up to its first await: with a filter it is exec over the
\* whole result, else the cached scalar.
CountStart(s, q, params, filter, skipCache) ==
  LET opts == parseOpts(q, params) IN
  /\ calls[s].pc \in {"idle", "done", "failed"}
  /\ nCalls' = nCalls + 1
  /\ calls' = [calls EXCEPT ![s] =
       [IdleCall EXCEPT
          !.pc = IF ~opts.ok THEN "failed"
                 ELSE IF filter # "none"
                 THEN IF bypassesCache(q, 0, None) THEN "mongo"
                      ELSE IF ~skipCache THEN "hget" ELSE "find"
                 ELSE IF ~skipCache THEN "hgetCount" ELSE "countMongo",
          !.op = "count", !.q = q, !.input = params,
          !.params = opts.params, !.key = opts.key,
          !.filter = filter, !.skipCache = skipCache]]
  /\ UNCHANGED <<db, hashes, sets, effects, keysInvalidated, nEffects, ttl, codec, watcher, updates>>

\* await redis.hget(cacheKey, 'count')
CountHget(s) ==
  LET c == calls[s]
      count == hashes[c.key].count
  IN
  /\ c.pc = "hgetCount"
  /\ calls' = [calls EXCEPT ![s] =
       IF IsSome(count)
       THEN [c EXCEPT !.pc = "done", !.didRead = TRUE, !.cnt = count]
       ELSE [c EXCEPT !.pc = "countMongo", !.didRead = TRUE]]
  /\ UNCHANGED <<db, hashes, sets, effects, keysInvalidated, nCalls, nEffects, ttl, codec, watcher, updates>>

\* await this.countMongo(opts.fresh({}))
CountMongo(s) ==
  LET c == calls[s] IN
  /\ c.pc = "countMongo"
  /\ calls' = [calls EXCEPT ![s].pc = "hsetCount", ![s].didFetch = TRUE,
                 ![s].cnt = Some(countMongo(db, c.q, c.params))]
  /\ UNCHANGED <<db, hashes, sets, effects, keysInvalidated, nCalls, nEffects, ttl, codec, watcher, updates>>

\* await redis.hset(cacheKey, 'count', count)
CountHset(s) ==
  LET c == calls[s] IN
  /\ c.pc = "hsetCount"
  /\ hashes' = [hashes EXCEPT ![c.key].count = c.cnt]
  /\ calls' = [calls EXCEPT ![s].pc = "done", ![s].didWrite = TRUE]
  /\ UNCHANGED <<db, sets, effects, keysInvalidated, nCalls, nEffects, ttl, codec, watcher, updates>>

\* What count hands to its caller: the cached / counted scalar, or with a
\* filter the length of exec's result.
countResult(c) == IF c.filter # "none" THEN Len(c.ret) ELSE c.cnt[1]

\* execWithCount(input) for an unbounded cacheCount, up to the first await of
\* its one exec over the whole result (skip 0, no limit); the caller's window
\* is kept for the cut that follows.  For a finite cacheCount execWithCount is
\* Promise.all of exec and count, two calls of the model side by side.
ExecWithCountStart(s, q, params, skip, limit, filter, skipCache) ==
  LET opts == parseOpts(q, params) IN
  /\ Config(q).cacheCount = Infinity
  /\ calls[s].pc \in {"idle", "done", "failed"}
  /\ nCalls' = nCalls + 1
  /\ calls' = [calls EXCEPT ![s] =
       [IdleCall EXCEPT
          !.pc = IF ~opts.ok THEN "failed"
                 ELSE IF bypassesCache(q, 0, None) THEN "mongo"
                 ELSE IF ~skipCache THEN "hget" ELSE "find",
          !.op = "execWithCount", !.q = q, !.input = params,
          !.params = opts.params, !.key = opts.key,
          !.skip = 0, !.limit = None, !.filter = filter, !.skipCache = skipCache,
          !.window = [skip |-> skip, limit |-> limit]]]
  /\ UNCHANGED <<db, hashes, sets, effects, keysInvalidated, nEffects, ttl, codec, watcher, updates>>

\* What execWithCount hands to its caller: [skipAndLimit(fullResult, skip,
\* limit), fullResult.length].
execWithCountResult(c) ==
  [rows |-> skipAndLimit(c.ret, c.window.skip, c.window.limit),
   total |-> Len(c.ret)]

\* What exec returns when each of its round trips sees the collection d and
\* the hashes h.
execReturns(d, h, q, params, skip, limit, filter, skipCache) ==
  IF bypassesCache(q, skip, limit) THEN execMongo(d, q, params, skip, limit)
  ELSE LET key == getCacheKey(q, params)
           cand == IF ~skipCache /\ IsSome(h[key].V) THEN h[key].V[1]
                   ELSE execMongo(d, q, params, 0, Some(Config(q).cacheCount))
       IN  skipAndLimit(applyFilter(filter, cand), skip, limit)

\* What count returns when each of its round trips sees the collection d and
\* the hashes h.
countReturns(d, h, q, params, filter, skipCache) ==
  IF filter # "none" THEN Len(execReturns(d, h, q, params, 0, None, filter, skipCache))
  ELSE LET key == getCacheKey(q, params)
       IN  IF ~skipCache /\ IsSome(h[key].count) THEN h[key].count[1]
           ELSE countMongo(d, q, params)

----------------------------------------------------------------------------
(* Classification of a definition and insert invalidation.                 *)

Arity(q) == Len(Config(q).paramTypes)

\* complexQuery: some filter clause is not a pure equality.
complexQuery(q) ==
  \E n \in 1..Len(Config(q).query) : Config(q).query[n].op # "eq"

\* dynamicKeys: the fields compared by equality with a call parameter, in
\* parameter order; empty unless every parametrized clause is a bare equality.
dynamicKeys(q) ==
  LET cs == Config(q).query
      FieldOf(i) == cs[CHOOSE n \in 1..Len(cs) : cs[n].param = i].field
  IN  IF \A n \in 1..Len(cs) : cs[n].param > 0 => cs[n].op = "eq"
      THEN [i \in 1..Arity(q) |-> FieldOf(i)]
      ELSE <<>>

\* matcher: false only when the document contradicts a static clause.
matcher(q, doc) ==
  \A n \in 1..Len(Config(q).query) :
     Config(q).query[n].param = 0 => ClauseHolds(Config(q).query[n], doc, <<>>)

NoInvalidation == [kind |-> "none", hash |-> "", key |-> ""]

\* A slip in getInsertInvalidation: the complexQuery test is skipped over, every
\* accepted document invalidates the whole definition.
getInsertInvalidationAlwaysAll(q, modelName, doc) ==
  IF Config(q).unique \/ ~Config(q).invalidateOnInsert \/ Config(q).model # modelName
  THEN NoInvalidation
  ELSE IF ~matcher(q, doc) THEN NoInvalidation
  ELSE [kind |-> "all", hash |-> Hash(q), key |-> ""]

\* A slip in getInsertInvalidation: the complexQuery test is missing, the key
\* is always rebuilt from dynamicKeys.
getInsertInvalidationAlwaysKey(q, modelName, doc) ==
  IF Config(q).unique \/ ~Config(q).invalidateOnInsert \/ Config(q).model # modelName
  THEN NoInvalidation
  ELSE IF ~matcher(q, doc) THEN NoInvalidation
  ELSE LET dk == dynamicKeys(q)
           params == [i \in 1..Len(dk) |-> doc[dk[i]]]
       IN  [kind |-> "key", hash |-> Hash(q), key |-> getCacheKey(q, params)]

\* A slip in getInsertInvalidation: the effect's model name is not compared.
getInsertInvalidationAnyModel(q, modelName, doc) ==
  IF Config(q).unique \/ ~Config(q).invalidateOnInsert
  THEN NoInvalidation
  ELSE IF ~matcher(q, doc) THEN NoInvalidation
  ELSE IF complexQuery(q) THEN [kind |-> "all", hash |-> Hash(q), key |-> ""]
  ELSE LET dk == dynamicKeys(q)
           params == [i \in 1..Len(dk) |-> doc[dk[i]]]
       IN  [kind |-> "key", hash |-> Hash(q), key |-> getCacheKey(q, params)]

\* getInsertInvalidation(cq, modelName, doc)
getInsertInvalidation(q, modelName, doc) ==
  IF Config(q).unique \/ ~Config(q).invalidateOnInsert \/ Config(q).model # modelName
  THEN NoInvalidation
  ELSE IF ~matcher(q, doc) THEN NoInvalidation
  ELSE IF complexQuery(q) THEN [kind |-> "all", hash |-> Hash(q), key |-> ""]
  ELSE LET dk == dynamicKeys(q)
           params == [i \in 1..Len(dk) |-> doc[dk[i]]]
       IN  [kind |-> "key", hash |-> Hash(q), key |-> getCacheKey(q, params)]

\* collectInsertInvalidations(model, docs): single keys and A:<hash> sets.
collectInsertInvalidations(modelName, ids) ==
  LET infos == {getInsertInvalidation(q, modelName, Doc(i)) : q \in Queries, i \in ids}
  IN  [keys |-> {info.key : info \in {x \in infos : x.kind = "key"}},
       sets |-> {"A:" \o info.hash : info \in {x \in infos : x.kind = "all"}}]

----------------------------------------------------------------------------
(* Database writes and the InvalidationHandler, one action per await.      *)

MaxEffectSlots == 1     \* cache effects in flight at once
ESlots == 1..MaxEffectSlots

IdleEffect ==
  [pc |-> "idle", op |-> "insert", modelName |-> "User", ids |-> {},
   keys |-> {}, sets |-> {}, target |-> {}, invalidated |-> {}, storeOps |-> 0,
   toFetch |-> {}, toWrite |-> {}, fetched |-> {}, skipped |-> {}, rewritten |-> {},
   failed |-> {}, storeFailed |-> FALSE]

\* The change-observation layer hands an effect to onCacheEffect.
Emit(e, op, modelName, ids) ==
  /\ effects[e].pc \in {"idle", "done", "rejected"}
  /\ nEffects' = nEffects + 1
  /\ effects' = [effects EXCEPT ![e] =
       [IdleEffect EXCEPT !.pc = "received", !.op = op, !.modelName = modelName,
                          !.ids = ids]]

\* Documents are inserted into the User collection; the insert effect follows.
DbInsert(e, ids) ==
  /\ ids # {} /\ ids \cap db = {}
  /\ db' = db \cup ids
  /\ Emit(e, "insert", "User", ids)
  /\ UNCHANGED <<hashes, sets, calls, keysInvalidated, nCalls, ttl, codec, watcher, updates>>

\* Documents are removed from the User collection; the remove effect follows.
DbRemove(e, ids) ==
  /\ ids # {} /\ ids \subseteq db
  /\ db' = db \ ids
  /\ Emit(e, "remove", "User", ids)
  /\ UNCHANGED <<hashes, sets, calls, keysInvalidated, nCalls, ttl, codec, watcher, updates>>

\* Documents are inserted into another collection.
OtherInsert(e, ids) ==
  /\ ids # {}
  /\ Emit(e, "insert", "Org", ids)
  /\ UNCHANGED <<db, hashes, sets, calls, keysInvalidated, nCalls, ttl, codec, watcher, updates>>

\* doInsertInvalidation up to its first await: collectInsertInvalidations,
\* then sunion when a set was collected, else "nothing to do" or invalidate.
DoInsertInvalidation(e) ==
  LET ef == effects[e]
      inv == collectInsertInvalidations(ef.modelName, ef.ids)
  IN
  /\ ef.pc = "received" /\ ef.op = "insert"
  /\ effects' = [effects EXCEPT ![e] =
       [ef EXCEPT !.keys = inv.keys, !.sets = inv.sets, !.target = inv.keys,
                  !.pc = IF inv.sets # {} THEN "sunion"
                         ELSE IF inv.keys = {} THEN "done" ELSE "delquery"]]
  /\ UNCHANGED <<db, hashes, sets, calls, keysInvalidated, nCalls, nEffects, ttl, codec, watcher, updates>>

\* await redis.sunion(...sets), then "nothing to do" or invalidate(union(...))
InsertSunion(e) ==
  LET ef == effects[e]
      fetchedKeys == UNION {sets[sk] : sk \in ef.sets}
  IN
  /\ ef.pc = "sunion"
  /\ effects' = [effects EXCEPT ![e] =
       [ef EXCEPT !.target = ef.keys \cup fetchedKeys, !.storeOps = ef.storeOps + 1,
                  !.pc = IF ef.keys = {} /\ fetchedKeys = {} THEN "done" ELSE "delquery"]]
  /\ UNCHANGED <<db, hashes, sets, calls, keysInvalidated, nCalls, nEffects, ttl, codec, watcher, updates>>

\* A slip in doRemoveInvalidation: only the O:<id> sets are united.
dependentKeysPrimaryOnly(st, ids) == UNION {st[objKey(i)] : i \in ids}

\* The keys doRemoveInvalidation resolves: sunion of O:<id> and P:<id>.
dependentKeys(st, ids) ==
  UNION ({st[objKey(i)] : i \in ids} \cup {st[popKey(i)] : i \in ids})

\* doRemoveInvalidation: await redis.sunion(...), then invalidate.
DoRemoveInvalidation(e) ==
  LET ef == effects[e]
      keys == dependentKeys(sets, ef.ids)
  IN
  /\ ef.pc = "received" /\ ef.op = "remove"
  /\ effects' = [effects EXCEPT ![e] =
       [ef EXCEPT !.target = keys, !.storeOps = ef.storeOps + 1,
                  !.pc = IF keys = {} THEN "done" ELSE "delquery"]]
  /\ UNCHANGED <<db, hashes, sets, calls, keysInvalidated, nCalls, nEffects, ttl, codec, watcher, updates>>

\* The redis command delquery on every key of one MULTI: the key is deleted.
delquery(h, keys) == [k \in StoreKeys |-> IF k \in keys THEN NoFields ELSE h[k]]

\* The parameter values of a call as the codec sees them, and back.
TypedParams(q, params) ==
  [j \in 1..Len(params) |->
     IF Config(q).paramTypes[j] = "string" THEN StringVal(<<params[j]>>)
     ELSE NumberVal(params[j])]

RawParams(vals) ==
  [j \in 1..Len(vals) |-> IF vals[j].t = "string" THEN Join(vals[j].s) ELSE vals[j].n]

\* The characters of a cache key of the store.
CharsOfKey(k) ==
  IF k = StrayKey THEN <<"Q", ":">> \o HashChars("byOrg") \o <<"[", "7">>
  ELSE LET q == QueryOfKey(k)
           p == CHOOSE p \in Params(q) : getCacheKey(q, p) = k
       IN getCacheKeyChars(q, TypedParams(q, p)).key

\* rehydrate, the test of one key: parseCacheKey(key), lookupCachedQuery.get(hash),
\* "if (!query || !query.config.rehydrate) return".
rehydrates(k) ==
  LET parsed == parseCacheKey(CharsOfKey(k)) IN
  /\ parsed.ok
  /\ \E q \in Queries : HashChars(q) = parsed.hash /\ Config(q).rehydrate

\* The definition and the params rehydrate re-executes for a key.
rehydrateCall(k) ==
  LET parsed == parseCacheKey(CharsOfKey(k))
      q == CHOOSE q \in Queries : HashChars(q) = parsed.hash
  IN [q |-> q, params |-> RawParams(parsed.params)]

\* A slip in invalidate: every requested key is taken as invalidated.
didExistAny(h, keys) == keys \cap StoreKeys

\* The keys of one MULTI of delquery that report "did exist".
didExist(h, keys) == {k \in keys \cap StoreKeys : KeyExists(h, k)}

\* A slip in rehydrate: the rehydrate flag of the definition is not looked at.
rehydrateTargetsAnyDefinition(keys) == keys \cap AllKeys

\* The keys of the store that pass the test of rehydrate, and the call made
\* for each of them.
RehydratedKeys == {k \in StoreKeys : rehydrates(k)}

\* The keys of the store on which parseCacheKey throws.
UndecodableKeys == {k \in StoreKeys : ~parseCacheKey(CharsOfKey(k)).ok}
RehydrateCalls == [k \in RehydratedKeys |-> rehydrateCall(k)]

\* The keys of an invalidation that rehydrate re-executes.
rehydrateTargets(keys) == keys \cap RehydratedKeys

\* The pc of an effect in rehydrate: Promise.all resolves when no
\* re-execution is left, and rejects when one of them has failed.
rehydratePc(toFetch, toWrite, failed) ==
  IF toFetch # {} \/ toWrite # {} THEN "rehydrate"
  ELSE IF failed = {} THEN "done" ELSE "rejected"

\* invalidate(keys): one MULTI of delquery; the keys that existed are
\* recorded, and re-executed where their definition asks for it.  The task
\* of a key that parseCacheKey cannot decode ends at once, with an error.
Invalidate(e) ==
  LET ef == effects[e]
      invalidated == didExist(hashes, ef.target)
      again == rehydrateTargets(invalidated)
      thrown == invalidated \cap UndecodableKeys
  IN
  /\ ef.pc = "delquery"
  /\ hashes' = delquery(hashes, ef.target)
  /\ keysInvalidated' = keysInvalidated \cup invalidated
  /\ effects' = [effects EXCEPT ![e] =
       [ef EXCEPT !.pc = rehydratePc(again, {}, thrown),
                  !.invalidated = invalidated, !.toFetch = again, !.failed = thrown,
                  !.storeOps = ef.storeOps + 1]]
  /\ ttl' = [k \in DOMAIN ttl |-> IF k \in ef.target THEN 0 ELSE ttl[k]]
  /\ UNCHANGED <<db, sets, calls, nCalls, nEffects, codec, watcher, updates>>

\* exec({ params, limit: cacheCount, skipCache: true }) as rehydrate calls
\* it, up to the result of execMongo: what serializeAndCache is to write,
\* if anything (nothing for a unique definition that found no document).
rehydrateExec(d, q, params) ==
  LET opts == parseOpts(q, params)
      result == execMongo(d, q, opts.params, 0, Some(Config(q).cacheCount))
  IN  [ok |-> opts.ok,
       cached |-> ~bypassesCache(q, 0, Some(Config(q).cacheCount))
                    /\ shouldCache(q, result),
       write |-> [key |-> opts.key, q |-> q, cand |-> result]]

\* rehydrate, one key: the re-execution, serializeAndCache left to follow.
RehydrateFind(e, k) ==
  LET ef == effects[e]
      ex == rehydrateExec(db, RehydrateCalls[k].q, RehydrateCalls[k].params)
  IN
  /\ ef.pc = "rehydrate" /\ k \in ef.toFetch /\ k \in RehydratedKeys
  /\ ex.ok
  /\ effects' = [effects EXCEPT ![e] =
       IF ex.cached
       THEN [ef EXCEPT !.toFetch = ef.toFetch \ {k}, !.fetched = ef.fetched \cup {k},
                       !.toWrite = ef.toWrite \cup {ex.write}]
       ELSE [ef EXCEPT !.toFetch = ef.toFetch \ {k}, !.fetched = ef.fetched \cup {k},
                       !.skipped = ef.skipped \cup {k},
                       !.pc = rehydratePc(ef.toFetch \ {k}, ef.toWrite, ef.failed)]]
  /\ UNCHANGED <<db, hashes, sets, calls, keysInvalidated, nCalls, nEffects, ttl, codec, watcher, updates>>

\* rehydrate, one key: the serializeAndCache of the re-execution.
RehydrateCache(e, w) ==
  LET ef == effects[e] IN
  /\ ef.pc = "rehydrate" /\ w \in ef.toWrite
  /\ hashes' = cacheHashes(hashes, w.cand, w.key)
  /\ sets' = cacheSets(sets, w.q, w.cand, w.key)
  /\ ttl' = cacheTtl(ttl, w.q, w.cand, w.key)
  /\ effects' = [effects EXCEPT ![e] =
       [ef EXCEPT !.toWrite = ef.toWrite \ {w}, !.rewritten = ef.rewritten \cup {w.key},
                  !.pc = rehydratePc(ef.toFetch, ef.toWrite \ {w}, ef.failed)]]
  /\ UNCHANGED <<db, calls, keysInvalidated, nCalls, nEffects, codec, watcher, updates>>

----------------------------------------------------------------------------
(* documentWatcherPlugin: the mongoose hooks that turn the writes of the    *)
(* application into insert and remove events.  A pre hook runs before the   *)
(* write it is registered on, a post hook after it; every await of a hook   *)
(* and the write itself are steps that other writes may run between.        *)

MaxWriteSlots == 2   \* writes of the application under way at once
MaxWrites == 2       \* writes started in one behaviour

WSlots == 1..MaxWriteSlots

\* The filter of a query as the ids of the documents whose fields satisfy it.
ByOrg(o) == {i \in DocIds : Doc(i).orgId = o}
QueryFilters == {ByOrg("A"), ByOrg("B")}

FirstOf(S) == CHOOSE x \in S : \A y \in S : x <= y

\* A write of the application (the hooks' `this`): `id` is the document of a
\* document write, `filter` the filter of a query, `doc` what findOneAnd...
\* handed to its post hook (0: null), `modified` the documents the write has
\* changed, `n` the number of the write.
IdleWrite ==
  [pc |-> "idle", op |-> "save", id |-> 0, isNew |-> FALSE, filter |-> {},
   upsert |-> FALSE, returnsNew |-> FALSE, updatedIds |-> {}, doc |-> 0,
   written |-> FALSE, modified |-> {}, n |-> 0]

\* `rev` counts the updates a document has taken; `log` holds the events in
\* the order invoke was called with them.
IdleWatcher ==
  [ops |-> [w \in WSlots |-> IdleWrite], log |-> <<>>,
   rev |-> [i \in DocIds |-> 0], nWrites |-> 0]

\* invoke(evt), called by the write wr: the event, with whether the write
\* had been made by then.
invoke(log, wr, op, ids) ==
  Append(log, [op |-> op, ids |-> ids, by |-> wr.n, written |-> wr.written])

\* findIds(query, firstOnly) on the collection d.
findIds(d, filter, firstOnly) ==
  LET found == d \cap filter
  IN  IF firstOnly /\ found # {} THEN {FirstOf(found)} ELSE found

\* The application starts doc.save() on a new document or on one it has
\* loaded.
SaveStart(w, i) ==
  /\ watcher.ops[w].pc \in {"idle", "done", "failed"}
  /\ watcher' = [watcher EXCEPT
       !.nWrites = watcher.nWrites + 1,
       !.ops[w] = [IdleWrite EXCEPT !.pc = "preDocSave", !.op = "save", !.id = i,
                                    !.isNew = (i \notin db),
                                    !.n = watcher.nWrites + 1]]
  /\ UNCHANGED <<db, hashes, sets, calls, effects, keysInvalidated, nCalls, nEffects, ttl, codec, updates>>

\* preDocSave: remove unless the document is new, then insert.
preDocSave(log, wr) ==
  IF wr.isNew THEN invoke(log, wr, "insert", {wr.id})
  ELSE invoke(invoke(log, wr, "remove", {wr.id}), wr, "insert", {wr.id})

\* The pre hook of a document save.
PreDocSave(w) ==
  LET wr == watcher.ops[w] IN
  /\ wr.pc = "preDocSave"
  /\ watcher' = [watcher EXCEPT !.log = preDocSave(watcher.log, wr),
                                !.ops[w].pc = "save"]
  /\ UNCHANGED <<db, hashes, sets, calls, effects, keysInvalidated, nCalls, nEffects, ttl, codec, updates>>

\* The save itself: a new document is inserted, a loaded one updated; the
\* update of a document that is gone by now fails.
SaveWrite(w) ==
  LET wr == watcher.ops[w]
      found == wr.isNew \/ wr.id \in db
  IN
  /\ wr.pc = "save"
  /\ db' = IF wr.isNew THEN db \cup {wr.id} ELSE db
  /\ watcher' = [watcher EXCEPT
       !.rev[wr.id] = IF ~wr.isNew /\ found THEN @ + 1 ELSE @,
       !.ops[w] = [wr EXCEPT !.pc = IF found THEN "done" ELSE "failed",
                             !.written = found,
                             !.modified = IF ~wr.isNew /\ found THEN {wr.id} ELSE {}]]
  /\ UNCHANGED <<hashes, sets, calls, effects, keysInvalidated, nCalls, nEffects, ttl, codec, updates>>

\* The save is refused by the database (a duplicate key, a lost connection).
SaveFails(w) ==
  /\ watcher.ops[w].pc = "save"
  /\ watcher' = [watcher EXCEPT !.ops[w].pc = "failed"]
  /\ UNCHANGED <<db, hashes, sets, calls, effects, keysInvalidated, nCalls, nEffects, ttl, codec, updates>>

\* The application starts doc.remove() / doc.deleteOne() on a loaded document.
DocRemoveStart(w, i) ==
  /\ watcher.ops[w].pc \in {"idle", "done", "failed"}
  /\ i \in db
  /\ watcher' = [watcher EXCEPT
       !.nWrites = watcher.nWrites + 1,
       !.ops[w] = [IdleWrite EXCEPT !.pc = "preDocRemove", !.op = "remove", !.id = i,
                                    !.n = watcher.nWrites + 1]]
  /\ UNCHANGED <<db, hashes, sets, calls, effects, keysInvalidated, nCalls, nEffects, ttl, codec, updates>>

\* preDocRemove: the remove event.
PreDocRemove(w) ==
  LET wr == watcher.ops[w] IN
  /\ wr.pc = "preDocRemove"
  /\ watcher' = [watcher EXCEPT !.log = invoke(watcher.log, wr, "remove", {wr.id}),
                                !.ops[w].pc = "remove"]
  /\ UNCHANGED <<db, hashes, sets, calls, effects, keysInvalidated, nCalls, nEffects, ttl, codec, updates>>

\* The removal of the document itself.
DocRemoveWrite(w) ==
  LET wr == watcher.ops[w] IN
  /\ wr.pc = "remove"
  /\ db' = db \ {wr.id}
  /\ watcher' = [watcher EXCEPT !.ops[w].pc = "done", !.ops[w].written = TRUE]
  /\ UNCHANGED <<hashes, sets, calls, effects, keysInvalidated, nCalls, nEffects, ttl, codec, updates>>

\* The application starts Model.updateOne / updateMany(filter, update).
QueryUpdateStart(w, op, filter, upsert) ==
  /\ watcher.ops[w].pc \in {"idle", "done", "failed"}
  /\ watcher' = [watcher EXCEPT
       !.nWrites = watcher.nWrites + 1,
       !.ops[w] = [IdleWrite EXCEPT !.pc = "preQueryUpdate", !.op = op,
                                    !.filter = filter, !.upsert = upsert,
                                    !.n = watcher.nWrites + 1]]
  /\ UNCHANGED <<db, hashes, sets, calls, effects, keysInvalidated, nCalls, nEffects, ttl, codec, updates>>

\* preQueryUpdate: await findIds, then the remove event for what was found.
PreQueryUpdate(w) ==
  LET wr == watcher.ops[w]
      ids == findIds(db, wr.filter, wr.op = "updateOne")
  IN
  /\ wr.pc = "preQueryUpdate"
  /\ watcher' = [watcher EXCEPT
       !.log = IF ids # {} THEN invoke(@, wr, "remove", ids) ELSE @,
       !.ops[w] = [wr EXCEPT !.pc = "update", !.updatedIds = ids]]
  /\ UNCHANGED <<db, hashes, sets, calls, effects, keysInvalidated, nCalls, nEffects, ttl, codec, updates>>

\* The update itself, on the documents that match the filter now: the first
\* of them for updateOne, all of them for updateMany; with upsert and no
\* match a document is inserted.
QueryUpdateWrite(w) ==
  LET wr == watcher.ops[w]
      hit == findIds(db, wr.filter, wr.op = "updateOne")
      upserted == IF hit = {} /\ wr.upsert THEN {FirstOf(wr.filter)} ELSE {}
  IN
  /\ wr.pc = "update"
  /\ db' = db \cup upserted
  /\ watcher' = [watcher EXCEPT
       !.rev = [i \in DocIds |-> IF i \in hit THEN @[i] + 1 ELSE @[i]],
       !.ops[w] = [wr EXCEPT !.pc = "postQueryUpdate", !.written = TRUE,
                             !.modified = hit,
                             !.updatedIds = wr.updatedIds \cup upserted]]
  /\ UNCHANGED <<hashes, sets, calls, effects, keysInvalidated, nCalls, nEffects, ttl, codec, updates>>

\* postQueryUpdate: await model.find({ _id: { $in: ids } }), then the insert
\* event with what was found, when ids holds an id.
PostQueryUpdate(w) ==
  LET wr == watcher.ops[w] IN
  /\ wr.pc = "postQueryUpdate"
  /\ watcher' = [watcher EXCEPT
       !.log = IF wr.updatedIds # {}
               THEN invoke(@, wr, "insert", wr.updatedIds \cap db) ELSE @,
       !.ops[w].pc = "done"]
  /\ UNCHANGED <<db, hashes, sets, calls, effects, keysInvalidated, nCalls, nEffects, ttl, codec, updates>>

\* The application starts Model.deleteOne / deleteMany(filter).
QueryRemoveStart(w, op, filter) ==
  /\ watcher.ops[w].pc \in {"idle", "done", "failed"}
  /\ watcher' = [watcher EXCEPT
       !.nWrites = watcher.nWrites + 1,
       !.ops[w] = [IdleWrite EXCEPT !.pc = "preQueryRemove", !.op = op,
                                    !.filter = filter, !.n = watcher.nWrites + 1]]
  /\ UNCHANGED <<db, hashes, sets, calls, effects, keysInvalidated, nCalls, nEffects, ttl, codec, updates>>

\* preQueryRemove: await findIds, then the remove event for what was found.
PreQueryRemove(w) ==
  LET wr == watcher.ops[w]
      ids == findIds(db, wr.filter, wr.op = "deleteOne")
  IN
  /\ wr.pc = "preQueryRemove"
  /\ watcher' = [watcher EXCEPT
       !.log = IF ids # {} THEN invoke(@, wr, "remove", ids) ELSE @,
       !.ops[w].pc = "delete"]
  /\ UNCHANGED <<db, hashes, sets, calls, effects, keysInvalidated, nCalls, nEffects, ttl, codec, updates>>

\* The removal itself, of the documents that match the filter now.
QueryRemoveWrite(w) ==
  LET wr == watcher.ops[w]
      hit == findIds(db, wr.filter, wr.op = "deleteOne")
  IN
  /\ wr.pc = "delete"
  /\ db' = db \ hit
  /\ watcher' = [watcher EXCEPT !.ops[w].pc = "done", !.ops[w].written = TRUE]
  /\ UNCHANGED <<hashes, sets, calls, effects, keysInvalidated, nCalls, nEffects, ttl, codec, updates>>

\* Model.findOneAndUpdate / findOneAndDelete(filter): the database finds the
\* first matching document and updates or removes it in one step; the post
\* hook is handed that document, or null.
FindOneAnd(w, op, filter, returnsNew) ==
  LET hit == findIds(db, filter, TRUE)
      i == IF hit = {} THEN 0 ELSE FirstOf(hit)
      isUpdate == op = "findOneAndUpdate"
  IN
  /\ watcher.ops[w].pc \in {"idle", "done", "failed"}
  /\ db' = IF isUpdate THEN db ELSE db \ hit
  /\ watcher' = [watcher EXCEPT
       !.nWrites = watcher.nWrites + 1,
       !.rev = [j \in DocIds |-> IF isUpdate /\ j \in hit THEN @[j] + 1 ELSE @[j]],
       !.ops[w] = [IdleWrite EXCEPT !.pc = "postFindOneAnd", !.op = op,
                                    !.filter = filter, !.returnsNew = returnsNew,
                                    !.doc = i, !.written = TRUE,
                                    !.modified = IF isUpdate THEN hit ELSE {},
                                    !.n = watcher.nWrites + 1]]
  /\ UNCHANGED <<hashes, sets, calls, effects, keysInvalidated, nCalls, nEffects, ttl, codec, updates>>

\* postFindOneAnd up to its await: nothing for no match; else the remove
\* event, and for an update the insert event, at once when the query returned
\* the new document.
PostFindOneAnd(w) ==
  LET wr == watcher.ops[w]
      removed == invoke(watcher.log, wr, "remove", {wr.doc})
  IN
  /\ wr.pc = "postFindOneAnd"
  /\ watcher' = [watcher EXCEPT
       !.log = IF wr.doc = 0 THEN @
               ELSE IF wr.op = "findOneAndUpdate" /\ wr.returnsNew
               THEN invoke(removed, wr, "insert", {wr.doc})
               ELSE removed,
       !.ops[w].pc = IF wr.doc # 0 /\ wr.op = "findOneAndUpdate" /\ ~wr.returnsNew
                     THEN "findOne" ELSE "done"]
  /\ UNCHANGED <<db, hashes, sets, calls, effects, keysInvalidated, nCalls, nEffects, ttl, codec, updates>>

\* postFindOneAnd after await model.findOne({ _id }): the insert event,
\* unless the document "might just have gotten deleted".
PostFindOneAndInsert(w) ==
  LET wr == watcher.ops[w] IN
  /\ wr.pc = "findOne"
  /\ watcher' = [watcher EXCEPT
       !.log = IF wr.doc \in db THEN invoke(@, wr, "insert", {wr.doc}) ELSE @,
       !.ops[w].pc = "done"]
  /\ UNCHANGED <<db, hashes, sets, calls, effects, keysInvalidated, nCalls, nEffects, ttl, codec, updates>>

\* The hooks and the writes of the write under way in slot w.
WatcherSteps(w) ==
  \/ PreDocSave(w)
  \/ SaveWrite(w)
  \/ SaveFails(w)
  \/ PreDocRemove(w)
  \/ DocRemoveWrite(w)
  \/ PreQueryUpdate(w)
  \/ QueryUpdateWrite(w)
  \/ PostQueryUpdate(w)
  \/ PreQueryRemove(w)
  \/ QueryRemoveWrite(w)
  \/ PostFindOneAnd(w)
  \/ PostFindOneAndInsert(w)

----------------------------------------------------------------------------
(* applyUpdates: the update operators applied to documents in memory.  A    *)
(* value is a record of its type and content; a document maps each field to *)
(* a value, `undefined` for a field it does not hold.  A path is the list   *)
(* of its dot-separated segments.                                           *)

MaxTargets == 2      \* applyUpdates is handed 0..MaxTargets documents
MaxEntries == 2      \* the update holds 1..MaxEntries operators or fields

Undefined == [t |-> "undefined", n |-> 0, items |-> <<>>]
NumberOf(n) == [t |-> "number", n |-> n, items |-> <<>>]
StringOf(n) == [t |-> "string", n |-> n, items |-> <<>>]    \* the n-th string
BooleanOf(b) == [t |-> "boolean", n |-> IF b THEN 1 ELSE 0, items |-> <<>>]
DateOf(ms) == [t |-> "date", n |-> ms, items |-> <<>>]
ArrayOf(items) == [t |-> "array", n |-> 0, items |-> items]

Fields == {"a", "arr", "missing"}

\* lib.getValue / setValue / unsetValue / updateValue on a path of one segment.
getValue(target, path) == target[path[1]]
setValue(target, path, val) == [target EXCEPT ![path[1]] = val]
unsetValue(target, path) == [target EXCEPT ![path[1]] = Undefined]

\* operators.includes(name)
operators ==
  {"$inc", "$min", "$max", "$mul", "$rename", "$set", "$setOnInsert", "$unset",
   "$addToSet", "$pop", "$push"}
isSupportedOperator(name) == name \in operators

\* path.includes('.$'): a segment after the first starts with $.
includesPositional(path) == \E j \in 2..Len(path) : path[j] \in {"$", "$[]"}

Applied(target) == [ok |-> TRUE, target |-> target]
Throws(target) == [ok |-> FALSE, target |-> target]

\* JavaScript's < and > on the values: numbers, booleans and dates compare by
\* their number, two strings by their order; undefined, a string next to a
\* number and an array of two items are not a number and compare false.
IsNumeric(val) == val.t \in {"number", "boolean", "date"}
lessThan(x, y) ==
  \/ IsNumeric(x) /\ IsNumeric(y) /\ x.n < y.n
  \/ x.t = "string" /\ y.t = "string" /\ x.n < y.n

\* found.includes(val): a Date is an object and equals no item.
Includes(items, val) == val.t # "date" /\ \E j \in 1..Len(items) : items[j] = val

\* handlers.$inc: num is the operand as a number (true 1, false 0, a Date its
\* time), else it throws; a missing field is set to val, a number has num
\* added, anything else throws.
inc(target, path, val) ==
  IF ~IsNumeric(val) THEN Throws(target)
  ELSE LET found == getValue(target, path)
       IN  IF found = Undefined THEN Applied(setValue(target, path, val))
           ELSE IF found.t = "number"
           THEN Applied(setValue(target, path, NumberOf(found.n + val.n)))
           ELSE Throws(target)

\* handlers.$mul
mul(target, path, val) ==
  IF val.t # "number" THEN Throws(target)
  ELSE LET found == getValue(target, path)
       IN  IF found = Undefined THEN Applied(setValue(target, path, NumberOf(0)))
           ELSE IF found.t = "number"
           THEN Applied(setValue(target, path, NumberOf(found.n * val.n)))
           ELSE Throws(target)

\* handlers.$addToSet, $push, $pop
addToSet(target, path, val) ==
  LET found == getValue(target, path)
  IN  IF found = Undefined THEN Applied(setValue(target, path, ArrayOf(<<val>>)))
      ELSE IF found.t = "array"
      THEN Applied(IF Includes(found.items, val) THEN target
                   ELSE setValue(target, path, ArrayOf(Append(found.items, val))))
      ELSE Throws(target)

push(target, path, val) ==
  LET found == getValue(target, path)
  IN  IF found = Undefined THEN Applied(setValue(target, path, ArrayOf(<<val>>)))
      ELSE IF found.t = "array"
      THEN Applied(setValue(target, path, ArrayOf(Append(found.items, val))))
      ELSE Throws(target)

pop(target, path, val) ==
  LET found == getValue(target, path)
  IN  IF found = Undefined THEN Applied(target)
      ELSE IF found.t = "array"
      THEN IF val = NumberOf(1) \/ val = BooleanOf(TRUE)
           THEN Applied(setValue(target, path,
                          ArrayOf(IF found.items = <<>> THEN <<>> ELSE Tail(found.items))))
           ELSE IF val = NumberOf(-1)
           THEN Applied(setValue(target, path,
                          ArrayOf(SubSeq(found.items, 1, Len(found.items) - 1))))
           ELSE Throws(target)
      ELSE Throws(target)

\* handlers[op](target, path, val); the operand of $rename is the n-th field.
FieldOfString(n) == IF n = 1 THEN "a" ELSE IF n = 2 THEN "arr" ELSE "missing"

handler(op, target, path, val) ==
  CASE op = "$inc" -> inc(target, path, val)
    [] op = "$min" -> Applied(IF lessThan(val, getValue(target, path))
                              THEN setValue(target, path, val) ELSE target)
    [] op = "$max" -> Applied(IF lessThan(getValue(target, path), val)
                              THEN setValue(target, path, val) ELSE target)
    [] op = "$mul" -> mul(target, path, val)
    [] op = "$rename" ->
         IF val.t # "string" THEN Throws(target)
         ELSE Applied(setValue(unsetValue(target, path), <<FieldOfString(val.n)>>,
                               getValue(target, path)))
    [] op = "$set" -> Applied(setValue(target, path, val))
    [] op = "$setOnInsert" -> Applied(target)
    [] op = "$unset" -> Applied(unsetValue(target, path))
    [] op = "$addToSet" -> addToSet(target, path, val)
    [] op = "$pop" -> pop(target, path, val)
    [] op = "$push" -> push(target, path, val)

\* An update as the caller writes it: nothing, an aggregation pipeline (an
\* array), or an object, the list of its entries.  An entry is a field with
\* a value, or a $-name with null, with a value that is no object, or with an
\* object, the list of its paths and operands.
NoUpdate == [kind |-> "none", entries |-> <<>>]
Pipeline == [kind |-> "array", entries |-> <<>>]
ObjectUpdate(entries) == [kind |-> "object", entries |-> entries]

FieldEntry(field, val) ==
  [key |-> field, form |-> "field", val |-> val, paths |-> <<>>]
OperatorEntry(name, form, paths) ==
  [key |-> name, form |-> form, val |-> Undefined, paths |-> paths]

\* parseUpdateQuery, addFieldToSetOp: result.$set[key] = val.
addFieldToSetOp(result, item) ==
  IF \E j \in 1..Len(result) : result[j].op = "$set"
  THEN [j \in 1..Len(result) |->
          IF result[j].op = "$set"
          THEN [result[j] EXCEPT !.paths = Append(@, item)] ELSE result[j]]
  ELSE Append(result, [op |-> "$set", paths |-> <<item>>])

RECURSIVE addFieldsToSetOp(_, _)
addFieldsToSetOp(result, items) ==
  IF items = <<>> THEN result
  ELSE addFieldsToSetOp(addFieldToSetOp(result, Head(items)), Tail(items))

\* parseUpdateQuery, the loop over Object.entries(input).
RECURSIVE parseEntries(_, _)
parseEntries(entries, result) ==
  IF entries = <<>> THEN [ok |-> TRUE, ops |-> result]
  ELSE LET en == Head(entries) IN
       IF en.form = "field"
       THEN parseEntries(Tail(entries),
              addFieldToSetOp(result, [path |-> <<en.key>>, val |-> en.val]))
       ELSE IF ~isSupportedOperator(en.key) THEN [ok |-> FALSE, ops |-> <<>>]
       ELSE IF en.form = "null" THEN parseEntries(Tail(entries), result)
       ELSE IF en.form = "scalar" THEN [ok |-> FALSE, ops |-> <<>>]
       ELSE IF en.key = "$set"
       THEN parseEntries(Tail(entries), addFieldsToSetOp(result, en.paths))
       ELSE parseEntries(Tail(entries),
              Append(result, [op |-> en.key, paths |-> en.paths]))

\* parseUpdateQuery(input)
parseUpdateQuery(input) ==
  IF input.kind = "none" THEN [ok |-> TRUE, ops |-> <<>>]
  ELSE IF input.kind = "array" THEN [ok |-> FALSE, ops |-> <<>>]
  ELSE parseEntries(input.entries, <<>>)

\* applyUpdates, targets.forEach((target) => handler(target, path, val)): the
\* targets are changed in place, one after the other, up to the one the
\* handler throws on.
RECURSIVE applyToTargets(_, _, _, _, _)
applyToTargets(op, path, val, targets, j) ==
  IF j > Len(targets) THEN [ok |-> TRUE, targets |-> targets]
  ELSE LET r == handler(op, targets[j], path, val)
       IN  IF r.ok
           THEN applyToTargets(op, path, val, [targets EXCEPT ![j] = r.target], j + 1)
           ELSE [ok |-> FALSE, targets |-> targets]

\* applyUpdates, the loop over the paths of one operator.
RECURSIVE applyPaths(_, _, _)
applyPaths(op, paths, targets) ==
  IF paths = <<>> THEN [ok |-> TRUE, targets |-> targets]
  ELSE IF Head(paths).val = Undefined THEN applyPaths(op, Tail(paths), targets)
  ELSE IF includesPositional(Head(paths).path) THEN [ok |-> FALSE, targets |-> targets]
  ELSE LET r == applyToTargets(op, Head(paths).path, Head(paths).val, targets, 1)
       IN  IF r.ok THEN applyPaths(op, Tail(paths), r.targets) ELSE r

\* applyUpdates, the loop over the operators of the parsed update.
RECURSIVE applyOperators(_, _)
applyOperators(ops, targets) ==
  IF ops = <<>> THEN [ok |-> TRUE, targets |-> targets]
  ELSE LET r == applyPaths(Head(ops).op, Head(ops).paths, targets)
       IN  IF r.ok THEN applyOperators(Tail(ops), r.targets) ELSE r

\* applyUpdates(targets, { update, filter, upsert }): whether it returns or
\* throws, the targets as it leaves them, and whether it hands back an
\* upserted document.
applyUpdates(targets, update, upsert) ==
  LET parsed == parseUpdateQuery(update)
      r == applyOperators(parsed.ops, targets)
  IN  IF ~parsed.ok THEN [ok |-> FALSE, targets |-> targets, upserted |-> FALSE]
      ELSE IF targets = <<>> THEN [ok |-> TRUE, targets |-> targets, upserted |-> upsert]
      ELSE [ok |-> r.ok, targets |-> r.targets, upserted |-> FALSE]

\* No call of applyUpdates: `before` holds the targets as they are handed in,
\* `targets` the same documents as the call leaves them.
IdleUpdates ==
  [pc |-> "idle", before |-> <<>>, update |-> NoUpdate, upsert |-> FALSE,
   targets |-> <<>>, upserted |-> FALSE]

\* The documents handed to applyUpdates.
DocOf(a, arr) == [f \in Fields |-> IF f = "a" THEN a ELSE IF f = "arr" THEN arr ELSE Undefined]
TargetDocs ==
  {DocOf(NumberOf(1), Undefined), DocOf(StringOf(1), Undefined),
   DocOf(NumberOf(1), ArrayOf(<<NumberOf(1), NumberOf(2)>>))}
TargetLists ==
  UNION {[1..n -> TargetDocs] : n \in 0..MaxTargets}

\* The operands and the paths of the updates.
Operands ==
  {NumberOf(5), NumberOf(1), NumberOf(-1), StringOf(1), BooleanOf(TRUE), DateOf(7),
   Undefined}
Paths == {<<"a">>, <<"arr">>, <<"missing">>, <<"arr", "$">>}

\* The entries of the updates: a field with a value, an operator of the
\* vocabulary or one outside of it ($pull, $bit) with one path, an operator
\* with null or with a number in place of its object.
UpdateEntries ==
  {FieldEntry(f, v) : f \in {"a"}, v \in {NumberOf(5)}}
    \cup {OperatorEntry(name, "object", <<[path |-> p, val |-> v]>>) :
            name \in operators \cup {"$pull"}, p \in Paths, v \in Operands}
    \cup {OperatorEntry(name, form, <<>>) :
            name \in {"$inc", "$bit"}, form \in {"null", "scalar"}}

\* The updates of one entry, and those of two that start with $set of a: 5.
Updates ==
  {NoUpdate, Pipeline}
    \cup {ObjectUpdate(<<en>>) : en \in UpdateEntries}
    \cup {ObjectUpdate(<<first, en>>) :
            first \in {OperatorEntry("$set", "object",
                                     <<[path |-> <<"a">>, val |-> NumberOf(5)]>>)},
            en \in {x \in UpdateEntries : MaxEntries >= 2 /\ x.key # "$set"}}

\* applyUpdates runs from its call to its return or its throw in one step.
ApplyUpdates ==
  /\ updates.pc = "called"
  /\ updates' =
       [updates EXCEPT
          !.pc = IF applyUpdates(updates.before, updates.update, updates.upsert).ok
                 THEN "returned" ELSE "thrown",
          !.targets = applyUpdates(updates.before, updates.update, updates.upsert).targets,
          !.upserted = applyUpdates(updates.before, updates.update, updates.upsert).upserted]
  /\ UNCHANGED <<db, hashes, sets, calls, effects, keysInvalidated, nCalls, nEffects, ttl,
                 codec, watcher>>

----------------------------------------------------------------------------
(* The system. *)

IdleCodec ==
  [pc |-> "idle", made |-> FALSE, q |-> "byOrg", params |-> <<>>, key |-> <<>>,
   hash |-> <<>>, parsed |-> <<>>]

Init ==
  /\ db \in SUBSET DocIds
  /\ hashes = [k \in StoreKeys |-> NoFields]
  /\ sets = [sk \in SetKeys |-> {}]
  /\ calls = [s \in Slots |-> IdleCall]
  /\ effects = [e \in ESlots |-> IdleEffect]
  /\ keysInvalidated = {}
  /\ nCalls = 0
  /\ nEffects = 0
  /\ ttl = [k \in StoreKeys \cup SetKeys |-> 0]
  /\ codec = IdleCodec
  /\ watcher = IdleWatcher
  /\ updates = IdleUpdates

\* The steps of the calls under way.
CallSteps ==
  \/ \E s \in Slots : ExecMongoDirect(s)
  \/ \E s \in Slots : ExecHget(s)
  \/ \E s \in Slots : ExecFind(s)
  \/ \E s \in Slots : ExecCache(s)
  \/ \E s \in Slots : CountHget(s)
  \/ \E s \in Slots : CountMongo(s)
  \/ \E s \in Slots : CountHset(s)

\* The steps of the InvalidationHandler on the effects under way.
HandlerSteps ==
  \/ \E e \in ESlots : DoInsertInvalidation(e)
  \/ \E e \in ESlots : InsertSunion(e)
  \/ \E e \in ESlots : DoRemoveInvalidation(e)
  \/ \E e \in ESlots : Invalidate(e)

\* The protocol under concurrency: callers that ask for the first two
\* documents or for everything, without client-side filter; database writes
\* of any number of documents.
Next ==
  \/ \E s \in Slots, q \in ColdQueries, limit \in {None, Some(2)} :
       \E params \in Params(q) :
          nCalls < MaxCalls /\ ExecStart(s, q, params, 0, limit, "none", FALSE)
  \/ \E s \in Slots, q \in ColdQueries :
       \E params \in Params(q) :
          nCalls < MaxCalls /\ CountStart(s, q, params, "none", FALSE)
  \/ CallSteps
  \/ \E e \in ESlots, ids \in SUBSET DocIds : nEffects < MaxEffects /\ DbInsert(e, ids)
  \/ \E e \in ESlots, ids \in SUBSET DocIds : nEffects < MaxEffects /\ DbRemove(e, ids)
  \/ \E e \in ESlots, ids \in SUBSET DocIds : nEffects < MaxEffects /\ OtherInsert(e, ids)
  \/ HandlerSteps

Spec == Init /\ [][Next]_vars

\* The calls with every option (any window, client-side filter, skipCache),
\* next to the removal of one document whose effect the handler has not taken
\* up yet (a cache entry written before it is stale).
NextCalls ==
  \/ \E s \in Slots, q \in ColdQueries, skip \in 0..MaxSkip, limit \in Limits,
        filter \in Filters, skipCache \in BOOLEAN :
       \E params \in Params(q) :
          nCalls < MaxWideCalls /\ ExecStart(s, q, params, skip, limit, filter, skipCache)
  \/ \E s \in Slots, q \in ColdQueries, filter \in Filters, skipCache \in BOOLEAN :
       \E params \in Params(q) :
          nCalls < MaxWideCalls /\ CountStart(s, q, params, filter, skipCache)
  \/ CallSteps
  \/ \E e \in ESlots, i \in DocIds : nEffects < MaxEffects /\ DbRemove(e, {i})

SpecCalls == Init /\ [][NextCalls]_vars

\* Parameter tuples of a wrong length: none, one too many.
WrongParams(q) == ({<<>>} \cup {p \o <<7>> : p \in Params(q)}) \ Params(q)

\* Callers that also pass parameter tuples of a wrong length.
NextArity ==
  \/ \E s \in Slots, q \in ColdQueries, limit \in {None, Some(2)} :
       \E params \in Params(q) \cup WrongParams(q) :
          nCalls < MaxCalls /\ ExecStart(s, q, params, 0, limit, "none", FALSE)
  \/ \E s \in Slots, q \in ColdQueries :
       \E params \in Params(q) \cup WrongParams(q) :
          nCalls < MaxCalls /\ CountStart(s, q, params, "none", FALSE)
  \/ CallSteps

SpecArity == Init /\ [][NextArity]_vars

MaxHandlerCalls == 2     \* calls that fill the cache before and between events
MaxHandlerEffects == 2   \* cache effects the handler is given in a row

\* The steps of rehydrate on the effects under way.
RehydrateSteps(e) ==
  \/ \E k \in RehydratedKeys : RehydrateFind(e, k)
  \/ \E w \in effects[e].toWrite : RehydrateCache(e, w)

\* Everything the handler does for the effect of one slot.
HandlerOf(e) ==
  \/ DoInsertInvalidation(e)
  \/ InsertSunion(e)
  \/ DoRemoveInvalidation(e)
  \/ Invalidate(e)
  \/ RehydrateSteps(e)

\* The definitions whose entries the handler is shown at work on: the
\* rehydrated ones and one that is not.
HandlerQueries == (Queries \ ColdQueries) \cup {"byOrg"}

\* The handler at work on a row of events: exec calls for the first two
\* documents fill the cache; single documents are inserted and removed.
NextHandler ==
  \/ \E s \in Slots, q \in HandlerQueries :
       \E params \in Params(q) :
          nCalls < MaxHandlerCalls /\ ExecStart(s, q, params, 0, Some(2), "none", FALSE)
  \/ \E s \in Slots : ExecHget(s)
  \/ \E s \in Slots : ExecFind(s)
  \/ \E s \in Slots : ExecCache(s)
  \/ \E e \in ESlots, i \in DocIds : nEffects < MaxHandlerEffects /\ DbInsert(e, {i})
  \/ \E e \in ESlots, i \in DocIds : nEffects < MaxHandlerEffects /\ DbRemove(e, {i})
  \/ \E e \in ESlots : HandlerOf(e)

\* Every task of the handler is an async function on the event loop: a step
\* that can be taken is taken in the end.
SpecHandler ==
  Init /\ [][NextHandler]_vars /\ \A e \in ESlots : WF_vars(HandlerOf(e))

----------------------------------------------------------------------------
(* Failures of the store and of the database.  A failing round trip is an   *)
(* action of its own next to the one that succeeds.                         *)

\* A slip in exec: the failure of the cache read reaches the caller.
ExecHgetFailsRaises(s) ==
  /\ calls[s].pc = "hget"
  /\ calls' = [calls EXCEPT ![s].pc = "failed", ![s].didRead = TRUE,
                 ![s].readFailed = TRUE]
  /\ UNCHANGED <<db, hashes, sets, effects, keysInvalidated, nCalls, nEffects, ttl, codec, watcher, updates>>

\* exec: redis.hgetBuffer or deserialize throws; the catch leaves result
\* undefined and the call goes on to execMongo.
ExecHgetFails(s) ==
  /\ calls[s].pc = "hget"
  /\ calls' = [calls EXCEPT ![s].pc = "find", ![s].didRead = TRUE,
                 ![s].readFailed = TRUE]
  /\ UNCHANGED <<db, hashes, sets, effects, keysInvalidated, nCalls, nEffects, ttl, codec, watcher, updates>>

\* serializeAndCache: serialize or multi.exec() throws; the catch drops it.
ExecCacheFails(s) ==
  /\ calls[s].pc = "cache"
  /\ calls' = [calls EXCEPT ![s].pc = "done", ![s].writeFailed = TRUE]
  /\ UNCHANGED <<db, hashes, sets, effects, keysInvalidated, nCalls, nEffects, ttl, codec, watcher, updates>>

\* count: redis.hget throws; the catch leaves count undefined.
CountHgetFails(s) ==
  /\ calls[s].pc = "hgetCount"
  /\ calls' = [calls EXCEPT ![s].pc = "countMongo", ![s].didRead = TRUE,
                 ![s].readFailed = TRUE]
  /\ UNCHANGED <<db, hashes, sets, effects, keysInvalidated, nCalls, nEffects, ttl, codec, watcher, updates>>

\* count: redis.hset throws; the catch drops it.
CountHsetFails(s) ==
  /\ calls[s].pc = "hsetCount"
  /\ calls' = [calls EXCEPT ![s].pc = "done", ![s].writeFailed = TRUE]
  /\ UNCHANGED <<db, hashes, sets, effects, keysInvalidated, nCalls, nEffects, ttl, codec, watcher, updates>>

\* Calls on a store that may fail at every round trip.
NextFaults ==
  \/ \E s \in Slots, q \in ColdQueries, limit \in {None, Some(2)} :
       \E params \in Params(q) :
          nCalls < MaxCalls /\ ExecStart(s, q, params, 0, limit, "none", FALSE)
  \/ \E s \in Slots, q \in ColdQueries :
       \E params \in Params(q) :
          nCalls < MaxCalls /\ CountStart(s, q, params, "none", FALSE)
  \/ CallSteps
  \/ \E s \in Slots : ExecHgetFails(s)
  \/ \E s \in Slots : ExecCacheFails(s)
  \/ \E s \in Slots : CountHgetFails(s)
  \/ \E s \in Slots : CountHsetFails(s)

SpecFaults == Init /\ [][NextFaults]_vars

\* doRemoveInvalidation: redis.sunion throws; nothing catches it and the
\* promise of the event is rejected.
RemoveSunionFails(e) ==
  LET ef == effects[e] IN
  /\ ef.pc = "received" /\ ef.op = "remove"
  /\ effects' = [effects EXCEPT ![e] =
       [ef EXCEPT !.pc = "rejected", !.storeFailed = TRUE,
                  !.storeOps = ef.storeOps + 1]]
  /\ UNCHANGED <<db, hashes, sets, calls, keysInvalidated, nCalls, nEffects, ttl, codec, watcher, updates>>

\* doInsertInvalidation: redis.sunion throws; nothing catches it.
InsertSunionFails(e) ==
  LET ef == effects[e] IN
  /\ ef.pc = "sunion"
  /\ effects' = [effects EXCEPT ![e] =
       [ef EXCEPT !.pc = "rejected", !.storeFailed = TRUE,
                  !.storeOps = ef.storeOps + 1]]
  /\ UNCHANGED <<db, hashes, sets, calls, keysInvalidated, nCalls, nEffects, ttl, codec, watcher, updates>>

\* invalidate: multi.exec() throws; nothing catches it.
InvalidateFails(e) ==
  LET ef == effects[e] IN
  /\ ef.pc = "delquery"
  /\ effects' = [effects EXCEPT ![e] =
       [ef EXCEPT !.pc = "rejected", !.storeFailed = TRUE,
                  !.storeOps = ef.storeOps + 1]]
  /\ UNCHANGED <<db, hashes, sets, calls, keysInvalidated, nCalls, nEffects, ttl, codec, watcher, updates>>

\* invalidate: multi.exec() resolves to null, the transaction was not run:
\* "if (!results || !results.length) return".
InvalidateDiscarded(e) ==
  LET ef == effects[e] IN
  /\ ef.pc = "delquery"
  /\ effects' = [effects EXCEPT ![e] =
       [ef EXCEPT !.pc = "done", !.storeFailed = TRUE,
                  !.storeOps = ef.storeOps + 1]]
  /\ UNCHANGED <<db, hashes, sets, calls, keysInvalidated, nCalls, nEffects, ttl, codec, watcher, updates>>

\* invalidate: the delquery of the keys in bad fails inside the MULTI, the
\* others run; "if (err !== null) return" skips the failed ones only.
InvalidatePartly(e, bad) ==
  LET ef == effects[e]
      ran == ef.target \ bad
      invalidated == didExist(hashes, ran)
      again == rehydrateTargets(invalidated)
      thrown == invalidated \cap UndecodableKeys
  IN
  /\ ef.pc = "delquery"
  /\ bad # {} /\ bad \subseteq ef.target /\ ran # {}
  /\ hashes' = delquery(hashes, ran)
  /\ keysInvalidated' = keysInvalidated \cup invalidated
  /\ effects' = [effects EXCEPT ![e] =
       [ef EXCEPT !.pc = rehydratePc(again, {}, thrown), !.storeFailed = TRUE,
                  !.invalidated = invalidated, !.toFetch = again, !.failed = thrown,
                  !.storeOps = ef.storeOps + 1]]
  /\ ttl' = [k \in DOMAIN ttl |-> IF k \in ran THEN 0 ELSE ttl[k]]
  /\ UNCHANGED <<db, sets, calls, nCalls, nEffects, codec, watcher, updates>>

\* A slip in rehydrate: the first failure ends the batch, the tasks of the
\* other keys are dropped.
RehydrateFailsEndsBatch(e, k) ==
  LET ef == effects[e] IN
  /\ ef.pc = "rehydrate" /\ k \in ef.toFetch
  /\ effects' = [effects EXCEPT ![e] =
       [ef EXCEPT !.toFetch = {}, !.failed = ef.failed \cup {k},
                  !.pc = rehydratePc({}, ef.toWrite, ef.failed \cup {k})]]
  /\ UNCHANGED <<db, hashes, sets, calls, keysInvalidated, nCalls, nEffects, ttl, codec, watcher, updates>>

\* rehydrate, one key: query.exec rejects (the database fails); the task of
\* this key ends, with an error.
RehydrateFails(e, k) ==
  LET ef == effects[e] IN
  /\ ef.pc = "rehydrate" /\ k \in ef.toFetch
  /\ effects' = [effects EXCEPT ![e] =
       [ef EXCEPT !.toFetch = ef.toFetch \ {k}, !.failed = ef.failed \cup {k},
                  !.pc = rehydratePc(ef.toFetch \ {k}, ef.toWrite, ef.failed \cup {k})]]
  /\ UNCHANGED <<db, hashes, sets, calls, keysInvalidated, nCalls, nEffects, ttl, codec, watcher, updates>>

\* An entry under the stray key, written for document 1 by an earlier
\* version, is in the store when the handler starts.
StrayRows == <<[_id |-> 1, manager |-> 0]>>

InitStray ==
  /\ db \in {D \in SUBSET DocIds : 1 \in D}
  /\ hashes = cacheHashes([k \in StoreKeys |-> NoFields], StrayRows, StrayKey)
  /\ sets = cacheSets([sk \in SetKeys |-> {}], "byOrg", StrayRows, StrayKey)
  /\ calls = [s \in Slots |-> IdleCall]
  /\ effects = [e \in ESlots |-> IdleEffect]
  /\ keysInvalidated = {}
  /\ nCalls = 0
  /\ nEffects = 0
  /\ ttl = [k \in StoreKeys \cup SetKeys |-> 0]
  /\ codec = IdleCodec
  /\ watcher = IdleWatcher
  /\ updates = IdleUpdates

MaxFaultEffects == 1   \* cache effects handled on a failing store

\* The failures that can meet the handler at work on an event.
HandlerFaults(e) ==
  \/ RemoveSunionFails(e)
  \/ InsertSunionFails(e)
  \/ InvalidateFails(e)
  \/ InvalidateDiscarded(e)
  \/ \E bad \in SUBSET StoreKeys : InvalidatePartly(e, bad)
  \/ \E k \in RehydratedKeys : RehydrateFails(e, k)

\* The handler on a store and a database that may fail at every round trip.
NextHandlerFaults ==
  \/ \E s \in Slots, q \in HandlerQueries :
       \E params \in Params(q) :
          nCalls < MaxHandlerCalls /\ ExecStart(s, q, params, 0, Some(2), "none", FALSE)
  \/ \E s \in Slots : ExecHget(s)
  \/ \E s \in Slots : ExecFind(s)
  \/ \E s \in Slots : ExecCache(s)
  \/ \E e \in ESlots, i \in DocIds : nEffects < MaxFaultEffects /\ DbInsert(e, {i})
  \/ \E e \in ESlots, i \in DocIds : nEffects < MaxFaultEffects /\ DbRemove(e, {i})
  \/ \E e \in ESlots : HandlerOf(e)
  \/ \E e \in ESlots : HandlerFaults(e)

\* The handler's tasks go on in the end; a failure may come or not.
SpecHandlerFaults ==
  InitStray /\ [][NextHandlerFaults]_vars /\ \A e \in ESlots : WF_vars(HandlerOf(e))

----------------------------------------------------------------------------
(* Expiry.  The store counts the seconds a key has left and deletes the key *)
(* when they are used up.                                                   *)

\* One second passes in the store: a key with one second left is deleted.
Tick ==
  /\ \E k \in DOMAIN ttl : ttl[k] > 0
  /\ ttl' = [k \in DOMAIN ttl |-> IF ttl[k] > 0 THEN ttl[k] - 1 ELSE 0]
  /\ hashes' = [k \in StoreKeys |-> IF ttl[k] = 1 THEN NoFields ELSE hashes[k]]
  /\ sets' = [sk \in SetKeys |-> IF ttl[sk] = 1 THEN {} ELSE sets[sk]]
  /\ UNCHANGED <<db, calls, effects, keysInvalidated, nCalls, nEffects, codec, watcher, updates>>

\* Calls and removes of single documents while time passes.
NextExpiry ==
  \/ \E s \in Slots, q \in ColdQueries, limit \in {None, Some(2)} :
       \E params \in Params(q) :
          nCalls < MaxCalls /\ ExecStart(s, q, params, 0, limit, "none", FALSE)
  \/ \E s \in Slots, q \in ColdQueries :
       \E params \in Params(q) :
          nCalls < MaxCalls /\ CountStart(s, q, params, "none", FALSE)
  \/ CallSteps
  \/ \E e \in ESlots, i \in DocIds : nEffects < MaxEffects /\ DbRemove(e, {i})
  \/ \E e \in ESlots : DoRemoveInvalidation(e)
  \/ \E e \in ESlots : Invalidate(e)
  \/ Tick

SpecExpiry == Init /\ [][NextExpiry]_vars

----------------------------------------------------------------------------
(* The codec on its own: getCacheKey on a definition and a parameter       *)
(* tuple, parseCacheKey on the key it made or on a key found in the store.  *)

\* The parameter values the callers pass.
CodecValues ==
  {StringVal(<<"A">>), StringVal(<<"a", "\"", "]">>), NumberVal(7), NumberVal(10),
   DateVal(1), OidVal(<<"5", "f">>)}

CodecTuples == UNION {[1..n -> CodecValues] : n \in 0..MaxTupleLen}

\* Keys in the store that getCacheKey did not make: the key format of the
\* first handler (q:<hash><params>) and a key cut short.
ForeignKeys ==
  {<<"q", ":">> \o HashChars("byOrg") \o EJSONStringifyChars(<<NumberVal(7)>>),
   <<"Q", ":">> \o HashChars("byOrg") \o <<"[", "7">>,
   <<"Q", ":">> \o HashChars("byOrg") \o <<"[", "{", "]">>}

InitCodec ==
  /\ db = {}
  /\ hashes = [k \in StoreKeys |-> NoFields]
  /\ sets = [sk \in SetKeys |-> {}]
  /\ calls = [s \in Slots |-> IdleCall]
  /\ effects = [e \in ESlots |-> IdleEffect]
  /\ keysInvalidated = {}
  /\ nCalls = 0
  /\ nEffects = 0
  /\ ttl = [k \in StoreKeys \cup SetKeys |-> 0]
  /\ codec \in {[IdleCodec EXCEPT !.pc = "input", !.q = q, !.params = p] :
                   q \in Queries, p \in CodecTuples}
               \cup {[IdleCodec EXCEPT !.pc = "key", !.key = k] : k \in ForeignKeys}
  /\ watcher = IdleWatcher
  /\ updates = IdleUpdates

\* getCacheKey(params)
GetCacheKey ==
  LET r == getCacheKeyChars(codec.q, codec.params) IN
  /\ codec.pc = "input"
  /\ codec' = IF r.ok THEN [codec EXCEPT !.pc = "key", !.made = TRUE, !.key = r.key]
                      ELSE [codec EXCEPT !.pc = "thrown"]
  /\ UNCHANGED <<db, hashes, sets, calls, effects, keysInvalidated, nCalls, nEffects, ttl,
               watcher, updates>>

\* parseCacheKey(key)
ParseCacheKey ==
  LET r == parseCacheKey(codec.key) IN
  /\ codec.pc = "key"
  /\ codec' = IF r.ok THEN [codec EXCEPT !.pc = "parsed", !.hash = r.hash,
                                         !.parsed = r.params]
                      ELSE [codec EXCEPT !.pc = "parseThrown"]
  /\ UNCHANGED <<db, hashes, sets, calls, effects, keysInvalidated, nCalls, nEffects, ttl,
               watcher, updates>>

NextCodec == GetCacheKey \/ ParseCacheKey

SpecCodec == InitCodec /\ [][NextCodec]_vars

----------------------------------------------------------------------------
(* execWithCount next to exec and count, with the handler at work on the    *)
(* removal of one document.                                                 *)

MaxCountCalls == 2   \* calls started in one behaviour of SpecWithCount

NextWithCount ==
  \/ \E s \in Slots, q \in ColdQueries, skip \in 0..1, limit \in {None, Some(1)},
        filter \in Filters, skipCache \in BOOLEAN :
       \E params \in Params(q) :
          /\ nCalls < MaxCountCalls
          /\ ExecWithCountStart(s, q, params, skip, limit, filter, skipCache)
  \/ \E s \in Slots, q \in ColdQueries :
       \E params \in Params(q) :
          nCalls < MaxCountCalls /\ ExecStart(s, q, params, 0, None, "none", FALSE)
  \/ \E s \in Slots, q \in ColdQueries :
       \E params \in Params(q) :
          nCalls < MaxCountCalls /\ CountStart(s, q, params, "none", FALSE)
  \/ CallSteps
  \/ \E e \in ESlots, i \in DocIds : nEffects < MaxEffects /\ DbRemove(e, {i})
  \/ \E e \in ESlots : DoRemoveInvalidation(e)
  \/ \E e \in ESlots : Invalidate(e)

SpecWithCount == Init /\ [][NextWithCount]_vars

----------------------------------------------------------------------------
(* The writes of the application seen through the hooks.                    *)

\* The application writes through every hooked path.
NextWatcher ==
  \/ \E w \in WSlots, i \in DocIds :
       watcher.nWrites < MaxWrites /\ SaveStart(w, i)
  \/ \E w \in WSlots, i \in DocIds :
       watcher.nWrites < MaxWrites /\ DocRemoveStart(w, i)
  \/ \E w \in WSlots, op \in {"updateOne", "updateMany"}, filter \in QueryFilters,
        upsert \in BOOLEAN :
       watcher.nWrites < MaxWrites /\ QueryUpdateStart(w, op, filter, upsert)
  \/ \E w \in WSlots, op \in {"deleteOne", "deleteMany"}, filter \in QueryFilters :
       watcher.nWrites < MaxWrites /\ QueryRemoveStart(w, op, filter)
  \/ \E w \in WSlots, op \in {"findOneAndUpdate", "findOneAndDelete"},
        filter \in QueryFilters, returnsNew \in BOOLEAN :
       watcher.nWrites < MaxWrites /\ FindOneAnd(w, op, filter, returnsNew)
  \/ \E w \in WSlots : WatcherSteps(w)

SpecWatcher == Init /\ [][NextWatcher]_vars

----------------------------------------------------------------------------
(* applyUpdates on every list of targets and every update of the bounds.    *)

InitUpdates ==
  /\ db = {}
  /\ hashes = [k \in StoreKeys |-> NoFields]
  /\ sets = [sk \in SetKeys |-> {}]
  /\ calls = [s \in Slots |-> IdleCall]
  /\ effects = [e \in ESlots |-> IdleEffect]
  /\ keysInvalidated = {}
  /\ nCalls = 0
  /\ nEffects = 0
  /\ ttl = [k \in StoreKeys \cup SetKeys |-> 0]
  /\ codec = IdleCodec
  /\ watcher = IdleWatcher
  /\ updates \in {[IdleUpdates EXCEPT !.pc = "called", !.before = t, !.targets = t,
                                      !.update = u, !.upsert = up] :
                    t \in TargetLists, u \in Updates, up \in BOOLEAN}

NextUpdates == ApplyUpdates

SpecUpdates == InitUpdates /\ [][NextUpdates]_vars

----------------------------------------------------------------------------
(* Properties. *)

\* No call and no effect is under way.
Quiescent ==
  /\ \A s \in Slots : calls[s].pc \in {"idle", "done"}
  /\ \A e \in ESlots : effects[e].pc \in {"idle", "done"}

\* The ids of the documents a cache entry's stored result contains, as
\* primary members or as populated sub-documents.
StoredIds(k) ==
  IF IsSome(hashes[k].V)
  THEN LET rows == hashes[k].V[1]
       IN  {rows[n]._id : n \in 1..Len(rows)}
             \cup ({rows[n].manager : n \in 1..Len(rows)} \ {0})
  ELSE {}

\* C1: once every remove effect has been processed and every exec in flight,
\* with its cache write, has finished, no cache entry's stored result
\* contains a document that is no longer in the collection.
C1_NoEntryHoldsRemovedDocument ==
  Quiescent => \A k \in AllKeys : StoredIds(k) \subseteq db

\* C2: processing a remove effect resolves exactly the members of O:<id> and
\* P:<id> of the removed ids at that time, and its delete batch deletes these
\* keys and leaves every other cache key as it was.
C2_RemoveDeletesExactlyDependents ==
  [][\A e \in ESlots :
       LET ef == effects[e] IN
       /\ (ef.op = "remove" /\ ef.pc = "received" /\ effects'[e].pc # "received")
            => effects'[e].target =
                 UNION {sets[objKey(i)] \cup sets[popKey(i)] : i \in ef.ids}
       /\ (ef.op = "remove" /\ ef.pc = "delquery" /\ effects'[e].pc = "done")
            => \A k \in AllKeys :
                 IF k \in ef.target THEN ~KeyExists(hashes', k)
                                    ELSE hashes'[k] = hashes[k]
    ]_vars

\* Removing [x, y], x a primary member of K1 only and y populated inside K2
\* only, has invalidated {K1, K2}.
C2_Witness ==
  \E e \in ESlots :
     LET ef == effects[e] IN
     /\ ef.pc = "done" /\ ef.op = "remove"
     /\ \E x, y \in ef.ids : \E K1, K2 \in AllKeys :
          /\ x # y /\ K1 # K2
          /\ K1 \in sets[objKey(x)] /\ K1 \notin sets[popKey(y)]
          /\ K2 \in sets[popKey(y)] /\ K2 \notin sets[objKey(x)]
          /\ ef.invalidated = {K1, K2}

\* A definition whose filter holds equality clauses only.
PureEquality(q) == \A n \in 1..Len(Config(q).query) : Config(q).query[n].op = "eq"

\* A definition that insert effects of the model can invalidate at all.
Eligible(q, modelName) ==
  ~Config(q).unique /\ Config(q).invalidateOnInsert /\ Config(q).model = modelName

KeysOf(q) == {getCacheKey(q, p) : p \in Params(q)}

HasNonEquality(q) == \E n \in 1..Len(Config(q).query) : Config(q).query[n].op # "eq"

\* C4 as claimed: for any definition with a non-equality filter clause, every
\* inserted document the matcher accepts invalidates the whole definition.
C4_ComplexAlwaysInvalidatesAll ==
  \A e \in ESlots : \A q \in Queries :
     LET ef == effects[e] IN
     (ef.op = "insert" /\ ef.pc \in {"sunion", "delquery", "done"} /\ HasNonEquality(q))
       => \A i \in ef.ids : matcher(q, Doc(i)) => allKey(q) \in ef.sets

\* C4 as amended: for a definition with a non-equality filter clause that is
\* not unique, has invalidateOnInsert set and is of the effect's model, every
\* inserted document the matcher accepts invalidates the whole definition.
C4_EligibleComplexInvalidatesAll ==
  \A e \in ESlots : \A q \in Queries :
     LET ef == effects[e] IN
     (ef.op = "insert" /\ ef.pc \in {"sunion", "delquery", "done"} /\ HasNonEquality(q)
        /\ Eligible(q, ef.modelName))
       => \A i \in ef.ids : matcher(q, Doc(i)) => allKey(q) \in ef.sets

\* An insert effect with a document the matcher of olderThan accepts and one
\* it rejects has collected A:<hash> of olderThan.
C4_Witness ==
  \E e \in ESlots :
     LET ef == effects[e] IN
     /\ ef.op = "insert" /\ ef.pc = "sunion"
     /\ \E i, j \in ef.ids : matcher("olderThan", Doc(i)) /\ ~matcher("olderThan", Doc(j))
     /\ allKey("olderThan") \in ef.sets

\* C5: the per-definition set A:<hash> contains every Q: key of that
\* definition that exists in the store, so that a full invalidation reaches
\* every key produced by exec or by count.
C5_AllSetHoldsEveryKey ==
  \A k \in AllKeys : KeyExists(hashes, k) => k \in sets[allKey(QueryOfKey(k))]

\* getInsertInvalidation is to return none for this definition and document.
ExpectNone(q, modelName, doc) ==
  \/ Config(q).unique
  \/ ~Config(q).invalidateOnInsert
  \/ Config(q).model # modelName
  \/ ~matcher(q, doc)

\* C6: a definition for which every inserted document resolves to none
\* contributes neither a key nor its A:<hash> set; an insert effect for which
\* every (definition, document) pair resolves to none ends at once, without
\* store operation and without deleting a key.
C6_NoneResolvesNothing ==
  \A e \in ESlots :
     LET ef == effects[e] IN
     (ef.op = "insert" /\ ef.pc \in {"sunion", "delquery", "done"}) =>
       /\ \A q \in Queries :
            (\A i \in ef.ids : ExpectNone(q, ef.modelName, Doc(i)))
              => allKey(q) \notin ef.sets /\ ef.keys \cap KeysOf(q) = {}
       /\ (\A q \in Queries : \A i \in ef.ids : ExpectNone(q, ef.modelName, Doc(i)))
              => /\ ef.pc = "done" /\ ef.storeOps = 0
                 /\ ef.target = {} /\ ef.invalidated = {}

\* An insert effect of another model has ended without a store operation
\* while the store holds a cache entry.
C6_Witness ==
  \E e \in ESlots :
     LET ef == effects[e] IN
     /\ ef.op = "insert" /\ ef.pc = "done" /\ ef.modelName = "Org" /\ ef.ids # {}
     /\ ef.storeOps = 0
     /\ \E k \in AllKeys : KeyExists(hashes, k)

ClaimedBypass(c) ==
  \/ Config(c.q).cacheCount < Infinity /\ c.limit = None
  \/ IsSome(c.limit) /\ c.skip + c.limit[1] > Config(c.q).cacheCount

\* C8: an exec with finite cacheCount and no limit, or with skip + limit
\* greater than cacheCount, only fetches from the source of truth: it reads
\* no cache entry and writes none.
C8_BypassTouchesNoCache ==
  \A s \in Slots :
     LET c == calls[s] IN
     (c.op = "exec" /\ c.pc # "idle" /\ ClaimedBypass(c))
       => c.pc \in {"mongo", "done"} /\ ~c.didRead /\ ~c.didWrite

\* The window [skip, skip + limit) of a list, by position.
Window(list, skip, limit) ==
  LET rest == IF Len(list) > skip THEN Len(list) - skip ELSE 0
      n == IF IsSome(limit) THEN Min(limit[1], rest) ELSE rest
  IN  [m \in 1..n |-> list[skip + m]]

\* The rows of a list that pass a client-side filter, in order.
Filtered(f, list) ==
  LET Pass(row) == f = "none" \/ Doc(row._id).orgId = "A" IN SelectSeq(list, Pass)

\* C9 as claimed: every exec given a client-side filter returns only
\* documents that satisfy the filter.
C9_EveryExecReturnsFilteredRows ==
  \A s \in Slots :
     LET c == calls[s] IN
     (c.op = "exec" /\ c.pc = "done" /\ c.filter # "none")
       => \A n \in 1..Len(c.ret) : Doc(c.ret[n]._id).orgId = "A"

\* C9 as amended: every exec given a client-side filter that the bypass test
\* does not send to the source of truth directly returns only documents that
\* satisfy the filter, namely the skip/limit window of the filtered candidate
\* list.
C9_CachedExecFiltersThenWindows ==
  \A s \in Slots :
     LET c == calls[s] IN
     (c.op = "exec" /\ c.pc \in {"cache", "done"} /\ c.filter # "none"
        /\ ~bypassesCache(c.q, c.skip, c.limit))
       => /\ \A n \in 1..Len(c.ret) : Doc(c.ret[n]._id).orgId = "A"
          /\ c.ret = Window(Filtered(c.filter, c.cand), c.skip, c.limit)

\* An exec with a filter and limit 1 has returned the second of two
\* candidates: the first one did not pass the filter.
C9_Witness ==
  \E s \in Slots :
     LET c == calls[s] IN
     /\ c.op = "exec" /\ c.pc = "done" /\ c.filter = "orgA" /\ c.limit = Some(1)
     /\ ~bypassesCache(c.q, c.skip, c.limit)
     /\ Len(c.cand) = 2 /\ Len(c.ret) = 1 /\ c.ret[1] = c.cand[2]

\* The documents of the collection that match the definition's query and
\* pass the client-side filter.
MatchingAndPassing(c) ==
  {i \in db : Matches(Doc(i), c.q, c.params) /\ (c.filter = "none" \/ Doc(i).orgId = "A")}

\* C10 as claimed: count with a client-side filter returns the number of
\* documents that match the definition's query and pass the filter (stated
\* for behaviours without a database write, where no cache entry is stale),
\* and touches no count field.
C10_FilteredCountIsExact ==
  \A s \in Slots :
     LET c == calls[s] IN
     (c.op = "count" /\ c.pc = "done" /\ c.filter # "none" /\ nEffects = 0)
       => countResult(c) = Cardinality(MatchingAndPassing(c)) /\ c.cnt = None

\* C10 as amended: for a definition with unbounded cacheCount, count with a
\* client-side filter returns the number of rows of exec's candidate result
\* (the cached payload, else the full fetch) that pass the filter, which
\* without a database write is the number of documents that match the query
\* and pass the filter; it never reaches the hget or hset of the count field.
C10_UnboundedFilteredCount ==
  \A s \in Slots :
     LET c == calls[s] IN
     (c.op = "count" /\ c.pc # "idle" /\ c.filter # "none"
        /\ Config(c.q).cacheCount = Infinity)
       => /\ c.pc \in {"hget", "find", "cache", "done"}
          /\ c.cnt = None
          /\ c.pc \in {"cache", "done"} =>
               /\ countResult(c) = Len(Filtered(c.filter, c.cand))
               /\ nEffects = 0 => countResult(c) = Cardinality(MatchingAndPassing(c))

\* A count with a filter on a definition with unbounded cacheCount has
\* fetched two documents and returned 1.
C10_Witness ==
  \E s \in Slots :
     LET c == calls[s] IN
     /\ c.op = "count" /\ c.pc = "done" /\ c.filter = "orgA"
     /\ Config(c.q).cacheCount = Infinity
     /\ c.didFetch /\ Len(c.cand) = 2 /\ countResult(c) = 1

\* C11: parseCacheKey of a key made by getCacheKey does not throw and returns
\* exactly the hash and the parameter tuple the key was made from.
C11_ParseInvertsGetCacheKey ==
  codec.made =>
    /\ codec.pc # "parseThrown"
    /\ codec.pc = "parsed" =>
         codec.hash = HashChars(codec.q) /\ codec.parsed = codec.params

\* C12: an exec or count called with a parameter tuple whose length differs
\* from the definition's arity fails, without a read or a write of the store
\* and without a fetch.
C12_WrongArityFails ==
  \A s \in Slots :
     LET c == calls[s] IN
     (c.pc # "idle" /\ Len(c.input) # Len(Config(c.q).paramTypes))
       => c.pc = "failed" /\ ~c.didRead /\ ~c.didWrite /\ ~c.didFetch



\* C13: a delete batch records as invalidated exactly the requested keys that
\* existed when it ran and leaves none of the requested keys behind; a batch
\* on keys of which none exists (the same key set a second time, no cache
\* write in between) changes no entry, records nothing and is not an error.
C13_InvalidateRecordsExactlyExisting ==
  [][\A e \in ESlots :
        (effects[e].pc = "delquery" /\ effects'[e].pc # "delquery") =>
          LET requested == effects[e].target \cap StoreKeys
              existed == {k \in requested : KeyExists(hashes, k)}
          IN /\ effects'[e].invalidated = existed
             /\ keysInvalidated' = keysInvalidated \cup existed
             /\ \A k \in requested : ~KeyExists(hashes', k)
             /\ \A k \in StoreKeys \ requested : hashes'[k] = hashes[k]
             /\ existed = {} =>
                  hashes' = hashes /\ keysInvalidated' = keysInvalidated
                    /\ effects'[e].pc = "done"]_vars

\* A second batch on keys an earlier batch has deleted: nothing is recorded.
C13_Witness ==
  \E e \in ESlots :
     /\ effects[e].pc = "done" /\ effects[e].target # {}
     /\ effects[e].invalidated = {}
     /\ effects[e].target \subseteq keysInvalidated

\* The keys of the definitions with rehydrate = true.
HotKeys == {k \in AllKeys : Config(QueryOfKey(k)).rehydrate}

\* The order of one event and the choice of the keys to rehydrate: deleting
\* follows resolving, rehydrating follows deleting; the keys scheduled after
\* the delete batch are exactly the keys it reported as existing whose
\* definition has rehydrate = true, and only scheduled keys are re-executed
\* and written, each under its own key.
RehydrateOrder ==
  /\ [](\A e \in ESlots :
          LET ef == effects[e] IN
          /\ (ef.toFetch \cup ef.fetched) \subseteq (ef.invalidated \cap HotKeys)
          /\ \A w \in ef.toWrite : w.key \in ef.fetched /\ w.q = QueryOfKey(w.key)
          /\ ef.rewritten \subseteq ef.fetched
          /\ ef.pc \in {"received", "sunion", "delquery"} =>
                ef.invalidated = {} /\ ef.fetched = {})
  /\ [][\A e \in ESlots :
          /\ (effects'[e].pc = "delquery" /\ effects[e].pc # "delquery")
                => effects[e].pc \in {"received", "sunion"}
          /\ (effects'[e].pc = "rehydrate" /\ effects[e].pc # "rehydrate")
                => effects[e].pc = "delquery"
          /\ (effects[e].pc = "delquery" /\ effects'[e].pc # "delquery")
                => effects'[e].toFetch = effects'[e].invalidated \cap HotKeys
          /\ \A k \in effects'[e].fetched \ effects[e].fetched :
                effects[e].pc = "rehydrate" /\ k \in effects[e].toFetch]_vars

\* Every event that rehydrates comes to its end.
RehydrateEnds ==
  \A e \in ESlots : (effects[e].pc = "rehydrate") ~> (effects[e].pc = "done")

RehydrateEndsOrRejects ==
  \A e \in ESlots :
     (effects[e].pc = "rehydrate") ~> (effects[e].pc \in {"done", "rejected"})

C16_StoreFailureIsNotACallFailure ==
  /\ [](\A s \in Slots :
          (calls[s].readFailed \/ calls[s].writeFailed) =>
             /\ calls[s].pc # "failed"
             /\ calls[s].pc = "done" => calls[s].didFetch)
  /\ [][\A s \in Slots :
          LET c == calls[s]
              d == calls'[s]
          IN
          /\ (~c.readFailed /\ d.readFailed) =>
                d.pc \in {"find", "countMongo"} /\ UNCHANGED <<hashes, sets, ttl>>
          /\ (c.readFailed /\ c.pc = "find" /\ d.pc # "find") =>
                d.ret = finish(c, execMongo(db, c.q, c.params, 0,
                                            Some(Config(c.q).cacheCount)))
          /\ (c.readFailed /\ c.pc = "countMongo" /\ d.pc # "countMongo") =>
                d.cnt = Some(countMongo(db, c.q, c.params))
          /\ (~c.writeFailed /\ d.writeFailed) =>
                /\ d.pc = "done" /\ d.ret = c.ret /\ d.cnt = c.cnt
                /\ UNCHANGED <<hashes, sets, ttl>>]_vars

\* A call that met a failed read and a failed write has returned; the store
\* holds no entry under its key.
C16_Witness ==
  \E s \in Slots :
     /\ calls[s].pc = "done" /\ calls[s].readFailed /\ calls[s].writeFailed
     /\ calls[s].didFetch /\ ~KeyExists(hashes, calls[s].key)

\* C17: an event that met a store failure while it resolved or deleted its
\* keys ends without an error, with no key recorded as invalidated, no key
\* deleted and no rehydration started.
C17_FailedInvalidationIsNothingInvalidated ==
  /\ [](\A e \in ESlots :
          effects[e].storeFailed =>
             /\ effects[e].pc = "done"
             /\ effects[e].invalidated = {}
             /\ effects[e].toFetch \cup effects[e].fetched = {})
  /\ [][\A e \in ESlots :
          (~effects[e].storeFailed /\ effects'[e].storeFailed) =>
             hashes' = hashes /\ keysInvalidated' = keysInvalidated]_vars

\* C18: in every state of the store, a cache key that holds a payload is a
\* member of O:<id> for every id of its primary id list, of P:<id> for every
\* id of its populated id list, and of A:<hash> of its definition.
C18_EntryIsIndexedWhileItLives ==
  \A k \in AllKeys :
     IsSome(hashes[k].V) =>
        /\ IsSome(hashes[k].O) /\ IsSome(hashes[k].P)
        /\ \A n \in 1..Len(hashes[k].O[1]) : k \in sets[objKey(hashes[k].O[1][n])]
        /\ \A n \in 1..Len(hashes[k].P[1]) : k \in sets[popKey(hashes[k].P[1][n])]
        /\ k \in sets[allKey(QueryOfKey(k))]

\* Two entries live in the store; the one with less time left holds a
\* document and a populated document.
C18_Witness ==
  \E k \in AllKeys :
     /\ IsSome(hashes[k].V) /\ hashes[k].P # Some(<<>>) /\ hashes[k].O # Some(<<>>)
     /\ ttl[k] = 1
     /\ \E k2 \in AllKeys \ {k} : IsSome(hashes[k2].V) /\ ttl[k2] = 2

\* The store deletes the entry of k at the end of its time, in a step that
\* is no step of a call or of the handler.
Expires(k) ==
  /\ KeyExists(hashes, k) /\ ttl[k] = 1 /\ ~KeyExists(hashes', k)
  /\ UNCHANGED <<calls, effects>>

\* C19: no O:<id>, P:<id> or A:<hash> set of the store lists a cache key whose
\* entry has expired.
C19_NoSetListsAnExpiredKey ==
  [][\A k \in StoreKeys :
        Expires(k) => \A sk \in SetKeys : k \notin sets'[sk]]_vars

\* C20: every key the executor has written has an expiry, and a read changes
\* no expiry.
C20_WrittenKeysExpireReadsKeepTtl ==
  /\ [](/\ \A k \in StoreKeys : KeyExists(hashes, k) => ttl[k] > 0
        /\ \A sk \in SetKeys : sets[sk] # {} => ttl[sk] > 0)
  /\ [][\A s \in Slots :
          (calls[s].pc \in {"hget", "hgetCount"} /\ calls'[s].pc # calls[s].pc)
             => ttl' = ttl]_vars

\* The handler has nothing under way.
HandlerAtRest == \A e \in ESlots : effects[e].pc \in {"idle", "done"}

\* The step on which the one exec of an execWithCount in slot s returns: the
\* cache read that hits, or the fetch after a miss.
ExecWithCountReturns(s) ==
  /\ calls[s].op = "execWithCount"
  /\ calls[s].pc \in {"hget", "find"} /\ calls'[s].pc \in {"cache", "done"}
  /\ calls[s].pc = "find" => (calls[s].skipCache \/ ~IsSome(hashes[calls[s].key].V))

\* C21: with an unbounded cacheCount and the handler at rest, the pair that
\* execWithCount returns is the pair of what exec and count return, called
\* with the same options on the state execWithCount has read.
C21_PairEqualsExecAndCount ==
  [][\A s \in Slots :
        LET c == calls[s] IN
        (ExecWithCountReturns(s) /\ HandlerAtRest) =>
           /\ execWithCountResult(calls'[s]).rows
                = execReturns(db, hashes, c.q, c.params, c.window.skip, c.window.limit,
                              c.filter, c.skipCache)
           /\ execWithCountResult(calls'[s]).total
                = countReturns(db, hashes, c.q, c.params, c.filter, c.skipCache)]_vars

\* The write of number n has invoked a remove event holding i and, after it,
\* an insert event holding i.
RemoveThenInsert(log, n, i) ==
  \E a \in 1..Len(log), b \in 1..Len(log) :
     /\ a < b
     /\ log[a].by = n /\ log[a].op = "remove" /\ i \in log[a].ids
     /\ log[b].by = n /\ log[b].op = "insert" /\ i \in log[b].ids

\* A write through one of the update paths: the save of a loaded document,
\* a query update, findOneAndUpdate.
IsUpdatePath(wr) ==
  \/ wr.op = "save" /\ ~wr.isNew
  \/ wr.op \in {"updateOne", "updateMany", "findOneAndUpdate"}

\* C22: when a write through an update path ends, every document it has
\* updated, and that is still there, has been given a remove event followed
\* by an insert event of the same id by that write; and no insert event of a
\* write holds a document the write has updated without a remove event of the
\* write holding it before.
C22_UpdateIsRemoveThenInsert ==
  [][\A w \in WSlots :
        LET wr == watcher'.ops[w] IN
        (watcher.ops[w].pc # "done" /\ wr.pc = "done" /\ IsUpdatePath(wr)) =>
           /\ \A i \in wr.modified \cap db' : RemoveThenInsert(watcher'.log, wr.n, i)
           /\ \A b \in 1..Len(watcher'.log) :
                 (watcher'.log[b].by = wr.n /\ watcher'.log[b].op = "insert") =>
                    \A i \in watcher'.log[b].ids \cap wr.modified :
                       \E a \in 1..(b - 1) :
                          /\ watcher'.log[a].by = wr.n /\ watcher'.log[a].op = "remove"
                          /\ i \in watcher'.log[a].ids]_vars

\* C23: every event was invoked after the write it describes had been made.
C23_EventFollowsItsWrite ==
  \A n \in 1..Len(watcher.log) : watcher.log[n].written

----------------------------------------------------------------------------
(* applyUpdates. *)

\* applyUpdates has returned or thrown.
UpdatesDone == updates.pc \in {"returned", "thrown"}

\* The call was handed one target and an update of $inc on one path that is
\* not positional, with an operand.
IncCallDone ==
  /\ UpdatesDone
  /\ Len(updates.before) = 1
  /\ updates.update.kind = "object"
  /\ Len(updates.update.entries) = 1
  /\ updates.update.entries[1].key = "$inc"
  /\ updates.update.entries[1].form = "object"
  /\ ~includesPositional(updates.update.entries[1].paths[1].path)
  /\ updates.update.entries[1].paths[1].val # Undefined

\* What $inc is to leave in the field: the sum on a number, the number of the
\* operand on a missing field.
IncExpected(found, val) ==
  IF found = Undefined THEN NumberOf(val.n) ELSE NumberOf(found.n + val.n)

\* C24: $inc with a number, a boolean (0/1) or a date as operand adds the
\* operand's number to a field that holds a number and sets a missing field
\* to that number; with any other operand, or on a field that holds
\* something else than a number, it fails.
C24_IncAddsNumericValue ==
  IncCallDone =>
    LET path == updates.update.entries[1].paths[1].path
        val == updates.update.entries[1].paths[1].val
        found == getValue(updates.before[1], path)
    IN  IF IsNumeric(val) /\ (found = Undefined \/ found.t = "number")
        THEN /\ updates.pc = "returned"
             /\ updates.targets[1] = setValue(updates.before[1], path, IncExpected(found, val))
        ELSE updates.pc = "thrown"

\* The update is an aggregation pipeline, names an operator outside of the
\* vocabulary, or holds a path with a positional wildcard.
Rejected(update) ==
  \/ update.kind = "array"
  \/ /\ update.kind = "object"
     /\ \E j \in 1..Len(update.entries) :
          \/ update.entries[j].form # "field" /\ ~isSupportedOperator(update.entries[j].key)
          \/ \E k \in 1..Len(update.entries[j].paths) :
               includesPositional(update.entries[j].paths[k].path)

\* C25: on every list of targets, applyUpdates fails on an aggregation
\* pipeline, on an operator outside of the vocabulary and on a path with a
\* positional wildcard: it neither applies such an update nor ignores it.
C25_RejectedUpdateFails ==
  (UpdatesDone /\ Rejected(updates.update)) =>
     (updates.pc = "thrown" /\ updates.targets = updates.before)

\* C27: applyUpdates is all-or-nothing: when it fails, no target is modified.
C27_FailureLeavesTargets ==
  updates.pc = "thrown" => updates.targets = updates.before

----------------------------------------------------------------------------
(* The payload of a miss. *)

\* What a miss of the definition q with the parameters params fetches and
\* stores: the first cacheCount documents from offset 0, unfiltered.
missPayload(d, q, params) == execMongo(d, q, params, 0, Some(Config(q).cacheCount))

\* C26: the payload written on a miss does not depend on the request that
\* missed: while the collection is as it was, an entry holds the unfiltered
\* first cacheCount documents of its query from offset 0 whatever the skip,
\* the limit and the filter of the exec that wrote it, and an exec within the
\* cacheable window returns, from the entry or not, what its own miss
\* returns.
C26_PayloadIsRequestIndependent ==
  nEffects = 0 =>
    /\ \A q \in ColdQueries : \A params \in Params(q) :
          IsSome(hashes[getCacheKey(q, params)].V) =>
             hashes[getCacheKey(q, params)].V[1] = missPayload(db, q, params)
    /\ \A s \in Slots :
          (/\ calls[s].op = "exec"
           /\ calls[s].pc = "done"
           /\ ~bypassesCache(calls[s].q, calls[s].skip, calls[s].limit))
          => calls[s].ret = finish(calls[s], missPayload(db, calls[s].q, calls[s].params))

\* The second exec of a behaviour is served from the entry the first one
\* wrote, with a filter and a skip of its own, and returns a document.
C26_Witness ==
  \E s \in Slots :
     /\ nEffects = 0
     /\ nCalls = 2
     /\ calls[s].op = "exec"
     /\ calls[s].pc = "done"
     /\ calls[s].didRead
     /\ ~calls[s].didFetch
     /\ calls[s].filter = "orgA"
     /\ calls[s].skip = 1
     /\ Len(calls[s].ret) = 1
     /\ Len(hashes[calls[s].key].V[1]) = 2

====
